---- MODULE Spec2Model ----
(***************************************************************************)
(* Git Spotlight: the blame cache (src/src/blame/blameCache.ts), the       *)
(* blame parser (src/src/blame/blameParser.ts) and the refresh logic of    *)
(* the extension (src/src/extension.ts), as state machines.                *)
(*                                                                         *)
(* Strings that the code inspects character by character (file paths,      *)
(* lines of blame output) are sequences of one-character strings; strings  *)
(* the code only compares for equality (revisions) are TLA+ strings.  A    *)
(* blame result held by the extension is the pair of what git blame read:  *)
(* the HEAD and the saved content of the file at that moment.              *)
(***************************************************************************)
EXTENDS Integers, Sequences, FiniteSets, TLC

VARIABLES
    cache,        \* BlameCache.cache: the Map, as the sequence of its entries in insertion order
    hits,         \* BlameCache.hits
    misses,       \* BlameCache.misses
    maxEntries,   \* BlameCache.maxEntries
    now,          \* what Date.now() returns
    last,         \* history: the last call made on the cache, with its return value
    setOrder,     \* history: the latest set of each file still cached, in the order of the calls
    firstSets,    \* history: the files set so far, while every call since construction was a set of another file
    deleted,      \* history: the file paths deleted and not set again since
    getLog,       \* history: the gets made since construction or clear, and how many found a result
    mode,         \* GitSpotlightExtension.mode
    activeEditor, \* vscode.window.activeTextEditor: the document it shows
    lastKnownHead,\* GitSpotlightExtension.lastKnownHead, for the one repository
    timer,        \* the debounced refresh: whether its timer is pending
    tasks,        \* the calls of refreshActiveEditor in flight, each at its await
    headTask,     \* onGitHeadChanged in flight: awaiting getHeadCommit or idle
    head,         \* the repository: the commit HEAD points to
    disk,         \* the file system: how many times the document was saved
    highlighted,  \* the decorations on the document: the blame result they were made from
    refreshes,    \* the number of refreshes started
    rawLines,     \* parseBlameOutput: blameOutput.split('\n')
    iLine,        \* parseBlameOutput: i, the index of the line being read, from 1
    lines,        \* parseBlameOutput: the Map from line number to BlameLineInfo
    blameInfo,    \* parseBlameOutput: the record of the block being read
    pc,           \* parseBlameOutput: where the function is
    parseResult,  \* parseBlameOutput: what it returned
    editorBlame,        \* the blame result of the document in the editor
    currentSettings,    \* LineDecorator.currentSettings
    documentLineCount,  \* editor.document.lineCount
    staticDecorations,  \* the editor: the lines under each of the four fixed decoration types
    dynamicDecorations, \* LineDecorator.dynamicDecorations: the Map from key to decoration, with its color and the lines the editor shows under it
    highlightedLines,   \* LineDecorator.highlightedLines
    activeLine,         \* editor.selection.active.line (from 0)
    navigated,          \* history: the last goToNextHighlight or goToPreviousHighlight, with its return value
    lastApply,          \* history: the last highlight operation, with its arguments
    heatmapInput,       \* groupHeatmapByColor: heatmapData, the data it is called with
    bucketCount,        \* groupHeatmapByColor: buckets, the number of buckets it is called with
    groupsReturned,     \* groupHeatmapByColor: the Map it returned
    wait,               \* debounce: wait, the delay in milliseconds
    timeoutId,          \* debounce: timeoutId, the id of the timer it set last or undefined
    timers,             \* the JavaScript runtime: the timers set and neither fired nor cleared
    clock,              \* the JavaScript runtime: the time in milliseconds
    eventLog,           \* history: the calls of the debounced function, its cancels and the runs of func, in order
    durationText,       \* parseDuration: duration, the string it is called with
    nowMs,              \* parseDuration: now, the current time it is called with
    dateTime,           \* the JavaScript runtime: what new Date(trimmed).getTime() gives for the string
    parsedDuration,     \* parseDuration: the ParsedDuration it returned
    pendingResolve,     \* debounceAsync: pendingResolve, the promise it resolves or undefined
    promises,           \* debounceAsync: the promises debouncedFn returned, each with its state
    running,            \* debounceAsync: the calls of func that have not settled
    selectedAuthor,     \* GitSpotlightExtension.selectedAuthor
    selectedCommit,     \* GitSpotlightExtension.selectedCommit
    selectedBranch,     \* GitSpotlightExtension.selectedBranch
    enableGutterAnnotations, \* GitSpotlightExtension.settings.enableGutterAnnotations
    editorDecorations,  \* the visible editors: the highlighted lines and the gutter annotations each shows
    refreshing,         \* the calls of refreshActiveEditor at an await, each with its editor
    command,            \* the command handler at an await: the picker or input box it shows
    lastEvent,          \* history: the handler that ran last, and how it ended
    sinceClear          \* history: whether clear ran with no highlight command since, and what was applied since

cacheVars == <<cache, hits, misses, maxEntries, now>>

cacheHistory == <<last, setOrder, firstSets, deleted, getLog>>

extVars == <<mode, activeEditor, lastKnownHead, timer, tasks, headTask, head, disk,
             highlighted, refreshes>>

parseVars == <<rawLines, iLine, lines, blameInfo, pc, parseResult>>

decoratorVars == <<editorBlame, currentSettings, documentLineCount, staticDecorations,
                   dynamicDecorations, highlightedLines, activeLine>>

decoratorHistory == <<navigated, lastApply>>

heatmapVars == <<heatmapInput, bucketCount, groupsReturned>>

debounceVars == <<wait, timeoutId, timers, clock, eventLog>>

durationVars == <<durationText, nowMs, dateTime, parsedDuration>>

asyncVars == <<pendingResolve, promises, running>>

sessionVars == <<selectedAuthor, selectedCommit, selectedBranch, enableGutterAnnotations,
                 editorDecorations, refreshing, command>>

sessionHistory == <<lastEvent, sinceClear>>

\* The variables of the functions that stand on their own.
utilVars == <<heatmapVars, debounceVars, durationVars, asyncVars, sessionVars, sessionHistory>>

\* All variables but those of one function that stands on its own.
notHeatmapVars ==
    <<cacheVars, cacheHistory, extVars, parseVars, decoratorVars, decoratorHistory, debounceVars,
      durationVars, asyncVars, sessionVars, sessionHistory>>
notDebounceVars ==
    <<cacheVars, cacheHistory, extVars, parseVars, decoratorVars, decoratorHistory, heatmapVars,
      durationVars, asyncVars, sessionVars, sessionHistory>>
notDurationVars ==
    <<cacheVars, cacheHistory, extVars, parseVars, decoratorVars, decoratorHistory, heatmapVars,
      debounceVars, asyncVars, sessionVars, sessionHistory>>

vars == <<cacheVars, cacheHistory, extVars, parseVars, decoratorVars, decoratorHistory, utilVars>>

----------------------------------------------------------------------------
(* Bounds and input domains *)

\* Capacities the cache is constructed with. With the two files of Paths a
\* cache of capacity 1 evicts and a cache of capacity 2 or more never needs to.
Capacities == {1, 2}
MaxClock == 1
MaxGets == 1

\* File paths handed to the cache: the empty path and two spellings of one
\* file (letter case and separator differ).
Paths == { <<>>, <<"a", "/">>, <<"A", "\\">> }

\* HEAD commit hashes: only compared for equality.
Revs == {"r1", "r2"}

\* Parsed blame results: opaque to the cache.
Results == {"R1", "R2"}

Undefined == "undefined"

----------------------------------------------------------------------------
(* JavaScript's Map, as a sequence of entries in insertion order *)

MapKeys(m) == { m[i].key : i \in 1..Len(m) }

MapHas(m, k) == \E i \in 1..Len(m) : m[i].key = k

MapGet(m, k) == m[CHOOSE i \in 1..Len(m) : m[i].key = k]

\* Map.set: an existing key keeps its position, a new key goes last.
MapSet(m, k, e) ==
    IF MapHas(m, k)
    THEN [i \in 1..Len(m) |-> IF m[i].key = k THEN e ELSE m[i]]
    ELSE Append(m, e)

MapDelete(m, k) == SelectSeq(m, LAMBDA e : e.key # k)

----------------------------------------------------------------------------
(* BlameCache *)

ToLowerCase(c) ==
    CASE c = "A" -> "a"
      [] c = "B" -> "b"
      [] c = "C" -> "c"
      [] c = "D" -> "d"
      [] c = "M" -> "m"
      [] c = "N" -> "n"
      [] c = "T" -> "t"
      [] c = "W" -> "w"
      [] c = "X" -> "x"
      [] c = "Y" -> "y"
      [] c = "Z" -> "z"
      [] OTHER -> c

\* Mutant: the separators are normalized but the letter case is kept.
getCacheKey_KeepsCase(filePath) ==
    [i \in 1..Len(filePath) |-> IF filePath[i] = "\\" THEN "/" ELSE filePath[i]]

\* filePath.replace(/\\/g, '/').toLowerCase()
getCacheKey(filePath) ==
    [i \in 1..Len(filePath) |->
        ToLowerCase(IF filePath[i] = "\\" THEN "/" ELSE filePath[i])]

\* The object: its four fields.
Self == [cache |-> cache, hits |-> hits, misses |-> misses, maxEntries |-> maxEntries]

\* Mutant: a stale entry is dropped by the get that finds it.
get_DropsStale(self, filePath, currentHeadCommit) ==
    LET key == getCacheKey(filePath) IN
    IF ~MapHas(self.cache, key)
    THEN [self |-> [self EXCEPT !.misses = @ + 1], ret |-> Undefined, defined |-> FALSE]
    ELSE IF MapGet(self.cache, key).headCommit # currentHeadCommit
    THEN [self |-> [self EXCEPT !.misses = @ + 1, !.cache = MapDelete(@, key)],
          ret |-> Undefined, defined |-> FALSE]
    ELSE [self |-> [self EXCEPT !.hits = @ + 1],
          ret |-> MapGet(self.cache, key).blameResult, defined |-> TRUE]

\* Mutant: a stale entry is not counted as a miss.
get_StaleNotCounted(self, filePath, currentHeadCommit) ==
    LET key == getCacheKey(filePath) IN
    IF ~MapHas(self.cache, key)
    THEN [self |-> [self EXCEPT !.misses = @ + 1], ret |-> Undefined, defined |-> FALSE]
    ELSE IF MapGet(self.cache, key).headCommit # currentHeadCommit
    THEN [self |-> self, ret |-> Undefined, defined |-> FALSE]
    ELSE [self |-> [self EXCEPT !.hits = @ + 1],
          ret |-> MapGet(self.cache, key).blameResult, defined |-> TRUE]

get(self, filePath, currentHeadCommit) ==
    LET key == getCacheKey(filePath) IN
    IF ~MapHas(self.cache, key)
    THEN [self |-> [self EXCEPT !.misses = @ + 1], ret |-> Undefined, defined |-> FALSE]
    ELSE IF MapGet(self.cache, key).headCommit # currentHeadCommit
    THEN [self |-> [self EXCEPT !.misses = @ + 1], ret |-> Undefined, defined |-> FALSE]
    ELSE [self |-> [self EXCEPT !.hits = @ + 1],
          ret |-> MapGet(self.cache, key).blameResult, defined |-> TRUE]

\* The forEach of evictOldest: the first entry with the smallest cachedAt
\* (oldestTime starts at Infinity, so the first entry visited always counts).
RECURSIVE OldestScan(_, _)
OldestScan(m, acc) ==
    IF m = <<>> THEN acc
    ELSE IF ~acc.found \/ Head(m).cachedAt < acc.oldestTime
    THEN OldestScan(Tail(m), [found |-> TRUE, oldestKey |-> Head(m).key,
                              oldestTime |-> Head(m).cachedAt])
    ELSE OldestScan(Tail(m), acc)

\* if (oldestKey): undefined and the empty string are both falsy.
Truthy(scan) == scan.found /\ scan.oldestKey # <<>>

evictOldest(m) ==
    LET scan == OldestScan(m, [found |-> FALSE, oldestKey |-> <<>>, oldestTime |-> 0]) IN
    IF Truthy(scan) THEN MapDelete(m, scan.oldestKey) ELSE m

set(self, filePath, headCommit, blameResult, dateNow) ==
    LET key == getCacheKey(filePath)
        m == IF Len(self.cache) >= self.maxEntries /\ ~MapHas(self.cache, key)
             THEN evictOldest(self.cache)
             ELSE self.cache
    IN [self EXCEPT !.cache =
            MapSet(m, key, [key |-> key,
                            blameResult |-> blameResult,
                            headCommit |-> headCommit,
                            cachedAt |-> dateNow,
                            filePath |-> filePath])]

has(self, filePath, currentHeadCommit) ==
    LET key == getCacheKey(filePath) IN
    [self |-> self,
     ret |-> MapHas(self.cache, key)
             /\ MapGet(self.cache, key).headCommit = currentHeadCommit]

\* Mutant: the path is used as the key as it stands.
delete_RawPath(self, filePath) ==
    [self |-> [self EXCEPT !.cache = MapDelete(@, filePath)],
     ret |-> MapHas(self.cache, filePath)]

delete(self, filePath) ==
    LET key == getCacheKey(filePath) IN
    [self |-> [self EXCEPT !.cache = MapDelete(@, key)],
     ret |-> MapHas(self.cache, key)]

clear(self) == [self EXCEPT !.cache = <<>>, !.hits = 0, !.misses = 0]

\* Mutant: every entry is swept, those of the new HEAD included.
keysToDelete_All(m, newHeadCommit) == { m[i].key : i \in 1..Len(m) }

\* keysToDelete: the keys of the entries whose headCommit differs.
keysToDelete(m, newHeadCommit) ==
    { m[i].key : i \in { j \in 1..Len(m) : m[j].headCommit # newHeadCommit } }

invalidateForHeadChange(self, newHeadCommit) ==
    [self EXCEPT !.cache =
        SelectSeq(@, LAMBDA e : e.key \notin keysToDelete(self.cache, newHeadCommit))]

\* hitRate is the fraction num/den, kept exact.
getStats(self) ==
    LET total == self.hits + self.misses IN
    [entryCount |-> Len(self.cache),
     hits |-> self.hits,
     misses |-> self.misses,
     hitRate |-> IF total > 0 THEN [num |-> self.hits * 100, den |-> total]
                 ELSE [num |-> 0, den |-> 1]]

----------------------------------------------------------------------------------------------------------------------------------------
(* History variables: what was called, not what the code did with it *)

\* Two spellings of one file: letter case is ignored and '\' stands for '/'.
SameFile(p, q) == p = q \/ {p, q} = { <<"a", "/">>, <<"A", "\\">> }

Spellings(p) == { q \in Paths : SameFile(p, q) }

\* The file paths of the entries of a Map, as they were passed to set.
Files(m) == { m[i].filePath : i \in 1..Len(m) }

\* The files cached in `before` and no longer in `after`, under any spelling.
Removed(before, after) ==
    { p \in Files(before) : \A q \in Files(after) : ~SameFile(p, q) }

NotOnlySets == [onlySets |-> FALSE, files |-> <<>>]

NoCall == [op |-> "new", filePath |-> <<>>, ret |-> "", removed |-> 0]

Call(op, filePath, ret, before, after) ==
    [op |-> op, filePath |-> filePath, ret |-> ret,
     removed |-> Cardinality(Removed(before, after))]

Bool(b) == IF b THEN "true" ELSE "false"

----------------------------------------------------------------------------
(* parseBlameOutput: strings and the pattern of a header line *)

\* What trim() removes and \s matches, among the characters of the model.
Whitespace == {" ", "\t", "\r"}

Digits == {"0", "1", "2", "3", "4", "5", "6", "7", "8", "9"}

HexDigits == Digits \cup {"a", "b", "c", "d", "e", "f"}

\* {40} of the header pattern.
ShaLength == 40

\* The result of parseInt when no digit is found.  No input of the model
\* has a sign, so no parsed number is negative.
NaN == -1

\* !line.trim()
IsBlank(line) == \A k \in 1..Len(line) : line[k] \in Whitespace

StartsWith(line, prefix) ==
    /\ Len(line) >= Len(prefix)
    /\ SubSeq(line, 1, Len(prefix)) = prefix

\* line.substring(n)
Substring(line, n) == SubSeq(line, n + 1, Len(line))

\* s.includes(sub)
Includes(s, sub) ==
    \E k \in 0..(Len(s) - Len(sub)) : SubSeq(s, k + 1, k + Len(sub)) = sub

\* Where a greedy run of characters of S that starts at p ends: the first
\* position from p on that is past the line or holds a character not in S.
RunEnd(line, p, S) ==
    LET stops == { q \in p..(Len(line) + 1) : q = Len(line) + 1 \/ line[q] \notin S } IN
    CHOOSE q \in stops : \A r \in stops : q <= r

DigitValue(c) ==
    CASE c = "0" -> 0 [] c = "1" -> 1 [] c = "2" -> 2 [] c = "3" -> 3 [] c = "4" -> 4
      [] c = "5" -> 5 [] c = "6" -> 6 [] c = "7" -> 7 [] c = "8" -> 8 [] c = "9" -> 9

RECURSIVE DecimalValue(_)
DecimalValue(ds) ==
    IF ds = <<>> THEN 0
    ELSE DecimalValue(SubSeq(ds, 1, Len(ds) - 1)) * 10 + DigitValue(ds[Len(ds)])

\* parseInt(s, 10): leading white space, a sign, then the digits up to the
\* first other character.
parseInt(s) ==
    LET p == RunEnd(s, 1, Whitespace)
        signed == p <= Len(s) /\ s[p] \in {"+", "-"}
        q == IF signed THEN p + 1 ELSE p
        e == RunEnd(s, q, Digits)
    IN IF e = q THEN NaN
       ELSE IF signed /\ s[p] = "-" THEN 0 - DecimalValue(SubSeq(s, q, e - 1))
       ELSE DecimalValue(SubSeq(s, q, e - 1))

NoMatch == [matched |-> FALSE, sha |-> <<>>, finalLine |-> <<>>]

\* line.match(/^([0-9a-f]{40})\s+(\d+)\s+(\d+)(?:\s+(\d+))?$/): groups 1 and 3.
headerMatch(line) ==
    IF Len(line) < ShaLength \/ \E k \in 1..ShaLength : line[k] \notin HexDigits
    THEN NoMatch
    ELSE LET s1 == ShaLength + 1
             d1 == RunEnd(line, s1, Whitespace)
             s2 == RunEnd(line, d1, Digits)
             d2 == RunEnd(line, s2, Whitespace)
             s3 == RunEnd(line, d2, Digits)
             d3 == RunEnd(line, s3, Whitespace)
             e3 == RunEnd(line, d3, Digits)
         IN IF /\ d1 > s1 /\ s2 > d1 /\ d2 > s2 /\ s3 > d2
               /\ \/ s3 = Len(line) + 1
                  \/ d3 > s3 /\ e3 > d3 /\ e3 = Len(line) + 1
            THEN [matched |-> TRUE, sha |-> SubSeq(line, 1, ShaLength),
                  finalLine |-> SubSeq(line, d2, s3 - 1)]
            ELSE NoMatch

UNCOMMITTED_SHA_PREFIX == [k \in 1..ShaLength |-> "0"]

NotCommittedYet ==
    <<"N", "o", "t", " ", "C", "o", "m", "m", "i", "t", "t", "e", "d", " ", "Y", "e", "t">>

notCommitted == <<"n", "o", "t", " ", "c", "o", "m", "m", "i", "t", "t", "e", "d">>

AuthorPrefix == <<"a", "u", "t", "h", "o", "r", " ">>
AuthorMailPrefix == <<"a", "u", "t", "h", "o", "r", "-", "m", "a", "i", "l", " ">>
AuthorTimePrefix == <<"a", "u", "t", "h", "o", "r", "-", "t", "i", "m", "e", " ">>
AuthorTzPrefix == <<"a", "u", "t", "h", "o", "r", "-", "t", "z", " ">>
SummaryPrefix == <<"s", "u", "m", "m", "a", "r", "y", " ">>
FilenamePrefix == <<"f", "i", "l", "e", "n", "a", "m", "e", " ">>
Tab == <<"\t">>

\* The record a header line starts.
newBlameInfo(m) ==
    [lineNumber |-> parseInt(m.finalLine), commitSha |-> m.sha, author |-> <<>>,
     authorMail |-> <<>>, authorTime |-> 0, authorTz |-> <<>>, summary |-> <<>>,
     isUncommitted |-> m.sha = UNCOMMITTED_SHA_PREFIX, filename |-> <<>>]

\* The chain of startsWith tests on a metadata line.
parseMetadata(info, metaLine) ==
    IF StartsWith(metaLine, AuthorPrefix)
    THEN [info EXCEPT !.author = Substring(metaLine, 7)]
    ELSE IF StartsWith(metaLine, AuthorMailPrefix)
    THEN [info EXCEPT !.authorMail = Substring(metaLine, 12)]
    ELSE IF StartsWith(metaLine, AuthorTimePrefix)
    THEN [info EXCEPT !.authorTime = parseInt(Substring(metaLine, 12))]
    ELSE IF StartsWith(metaLine, AuthorTzPrefix)
    THEN [info EXCEPT !.authorTz = Substring(metaLine, 10)]
    ELSE IF StartsWith(metaLine, SummaryPrefix)
    THEN [info EXCEPT !.summary = Substring(metaLine, 8)]
    ELSE IF StartsWith(metaLine, FilenamePrefix)
    THEN [info EXCEPT !.filename = Substring(metaLine, 9)]
    ELSE info

\* Mutant: the author alone decides, the sentinel commit id is forgotten.
markUncommitted_AuthorOnly(info) ==
    [info EXCEPT !.isUncommitted =
        \/ info.author = NotCommittedYet
        \/ Includes([k \in 1..Len(info.author) |-> ToLowerCase(info.author[k])], notCommitted)]

\* After the metadata loop: the author marks the line uncommitted, and the
\* record is stored under its line number.
markUncommitted(info) ==
    [info EXCEPT !.isUncommitted =
        \/ @
        \/ info.author = NotCommittedYet
        \/ Includes([k \in 1..Len(info.author) |-> ToLowerCase(info.author[k])], notCommitted)]

\* Mutant: a line number that has a record keeps it.
storeBlock_KeepsFirst(m, info) ==
    IF MapHas(m, info.lineNumber) THEN m
    ELSE Append(m, [key |-> info.lineNumber, value |-> markUncommitted(info)])

storeBlock(m, info) ==
    MapSet(m, info.lineNumber, [key |-> info.lineNumber, value |-> markUncommitted(info)])

NoBlameInfo ==
    [lineNumber |-> 0, commitSha |-> <<>>, author |-> <<>>, authorMail |-> <<>>,
     authorTime |-> 0, authorTz |-> <<>>, summary |-> <<>>, isUncommitted |-> FALSE,
     filename |-> <<>>]

NoReturn == [returned |-> FALSE, success |-> FALSE, lines |-> <<>>, lineCount |-> 0]

----------------------------------------------------------------------------
(* The extension: its modes, the one document it can blame, the repository *)

\* HighlightMode: no highlighting, or highlighting all authors.
Modes == {"none", "author"}

\* What the active editor shows: the tracked file, or a document that
\* validateFileForBlame rejects.
Editors == {"file", "other"}

\* The fsPath of the tracked file.
FsPath == <<"a", "/">>

\* new BlameCache(): the default capacity.
DefaultMaxEntries == 50

MaxTasks == 1
MaxSaves == 1
MaxRefreshes == 2

NoHead == "undefined"

\* A call of refreshActiveEditor that is not running.
IdleTask == [pc |-> "idle", headCommit |-> NoHead, blame |-> [head |-> NoHead, disk |-> 0],
             savesAtStart |-> 0]

\* No decoration on the document.
NoHighlight == [on |-> FALSE, blame |-> [head |-> NoHead, disk |-> 0], savesAtStart |-> 0]

\* parseBlameOutput is not running.
ParseIdle ==
    /\ rawLines = <<>>
    /\ iLine = 0
    /\ lines = <<>>
    /\ blameInfo = NoBlameInfo
    /\ pc = "idle"
    /\ parseResult = NoReturn

\* The extension as constructed, nothing running.
ExtIdle ==
    /\ mode = "none"
    /\ activeEditor = "file"
    /\ lastKnownHead = NoHead
    /\ timer = FALSE
    /\ tasks = [t \in 1..MaxTasks |-> IdleTask]
    /\ headTask = "idle"
    /\ disk = 0
    /\ highlighted = NoHighlight
    /\ refreshes = 0

\* DEFAULT_SETTINGS, the fields the line decorator reads for its colors.
DefaultSaturation == 55
DefaultLightness == 45
DefaultOpacity == "0.28"

DEFAULT_SETTINGS ==
    [enableUncommittedHighlight |-> TRUE, colorSaturation |-> DefaultSaturation,
     colorLightness |-> DefaultLightness, colorOpacity |-> DefaultOpacity]

\* A blame result without lines.
EmptyBlame == [success |-> TRUE, lines |-> <<>>, lineCount |-> 0]

\* The four fixed decoration types, none on any line.
NoStaticDecorations == [age |-> <<>>, uncommitted |-> <<>>, selected |-> <<>>, review |-> <<>>]

NoNavigation == [op |-> "none", from |-> 0, defined |-> FALSE, line |-> 0]

NoApply == [op |-> "none", cutoff |-> 0, target |-> <<>>]

\* groupHeatmapByColor has not been called.
NoGroups == [returned |-> FALSE, groups |-> <<>>]

HeatmapIdle ==
    /\ heatmapInput = <<>>
    /\ bucketCount = 1
    /\ groupsReturned = NoGroups

\* timeoutId is undefined.
NoTimeout == 0

\* No function has been debounced.
DebounceIdle ==
    /\ wait = 0
    /\ timeoutId = NoTimeout
    /\ timers = {}
    /\ clock = 0
    /\ eventLog = <<>>

\* A number of milliseconds, s * 1000 + ms with ms in 0..999: the code's
\* timestamps do not fit the 32 bits of the model's integers.
Millis(s, ms) == [s |-> s, ms |-> ms]

\* new Date(trimmed).getTime() is NaN.
InvalidDate == [valid |-> FALSE, time |-> Millis(0, 0)]

\* parseDuration has not been called.
NotParsed == [returned |-> FALSE, success |-> FALSE]

DurationIdle ==
    /\ durationText = <<>>
    /\ nowMs = Millis(0, 0)
    /\ dateTime = InvalidDate
    /\ parsedDuration = NotParsed

\* debounceAsync: nothing called yet.
AsyncIdle ==
    /\ pendingResolve = 0
    /\ promises = <<>>
    /\ running = {}

\* No command handler is at an await.
NoCommand == [pc |-> "idle", value |-> <<>>, valid |-> FALSE]

\* An editor that shows no highlight and no gutter annotation.
NoDecorations == [lines |-> {}, gutter |-> FALSE]

\* The extension as constructed: no parameter chosen, DEFAULT_SETTINGS,
\* no command and no refresh running.
SessionIdle ==
    /\ selectedAuthor = Undefined
    /\ selectedCommit = Undefined
    /\ selectedBranch = Undefined
    /\ enableGutterAnnotations = FALSE
    /\ editorDecorations = [e \in {"file", "other"} |-> NoDecorations]
    /\ refreshing = {}
    /\ command = NoCommand
    /\ lastEvent = "none"
    /\ sinceClear = [cleared |-> FALSE, applied |-> FALSE]

\* No function that stands on its own has been called.
UtilIdle ==
    /\ HeatmapIdle
    /\ DebounceIdle
    /\ DurationIdle
    /\ AsyncIdle
    /\ SessionIdle

\* The line decorator as constructed, no document blamed.
DecoratorIdle ==
    /\ editorBlame = EmptyBlame
    /\ currentSettings = DEFAULT_SETTINGS
    /\ documentLineCount = 0
    /\ staticDecorations = NoStaticDecorations
    /\ dynamicDecorations = <<>>
    /\ highlightedLines = <<>>
    /\ activeLine = 0
    /\ navigated = NoNavigation
    /\ lastApply = NoApply

----------------------------------------------------------------------------
(* The cache on its own: any sequence of calls *)

InitCache ==
    /\ cache = <<>>
    /\ hits = 0
    /\ misses = 0
    /\ maxEntries \in Capacities
    /\ now = 0
    /\ last = NoCall
    /\ setOrder = <<>>
    /\ firstSets = [onlySets |-> TRUE, files |-> <<>>]
    /\ deleted = {}
    /\ getLog = [gets |-> 0, found |-> 0]
    /\ ExtIdle
    /\ UtilIdle
    /\ DecoratorIdle
    /\ head = "r1"
    /\ ParseIdle

Install(self) ==
    /\ cache' = self.cache
    /\ hits' = self.hits
    /\ misses' = self.misses
    /\ maxEntries' = self.maxEntries

\* Time passes.
Tick ==
    /\ now < MaxClock
    /\ now' = now + 1
    /\ UNCHANGED <<cache, hits, misses, maxEntries, last, setOrder, firstSets, deleted, getLog>>
    /\ UNCHANGED <<extVars, parseVars, decoratorVars, decoratorHistory, utilVars>>

Get ==
    \E f \in Paths, r \in Revs :
        LET out == get(Self, f, r) IN
        /\ getLog.gets < MaxGets
        /\ Install(out.self)
        /\ last' = Call("get", f, out.ret, cache, out.self.cache)
        /\ getLog' = [gets |-> getLog.gets + 1,
                      found |-> getLog.found + (IF out.ret # Undefined THEN 1 ELSE 0)]
        /\ firstSets' = NotOnlySets
        /\ UNCHANGED <<now, setOrder, deleted>>
        /\ UNCHANGED <<extVars, parseVars, decoratorVars, decoratorHistory, utilVars>>

Set ==
    \E f \in Paths, r \in Revs, b \in Results :
        LET out == set(Self, f, r, b, now) IN
        /\ Install(out)
        /\ last' = Call("set", f, "", cache, out.cache)
        /\ setOrder' = Append(SelectSeq(setOrder, LAMBDA g :
                                  ~SameFile(g.filePath, f) /\ g.filePath \notin Removed(cache, out.cache)),
                              [filePath |-> f, rev |-> r, res |-> b])
        /\ firstSets' = IF firstSets.onlySets
                           /\ \A i \in 1..Len(firstSets.files) : ~SameFile(firstSets.files[i], f)
                        THEN [firstSets EXCEPT !.files = Append(@, f)]
                        ELSE NotOnlySets
        /\ deleted' = deleted \ Spellings(f)
        /\ UNCHANGED <<now, getLog>>
        /\ UNCHANGED <<extVars, parseVars, decoratorVars, decoratorHistory, utilVars>>

Has ==
    \E f \in Paths, r \in Revs :
        LET out == has(Self, f, r) IN
        /\ Install(out.self)
        /\ last' = Call("has", f, Bool(out.ret), cache, out.self.cache)
        /\ firstSets' = NotOnlySets
        /\ UNCHANGED <<now, setOrder, deleted, getLog>>
        /\ UNCHANGED <<extVars, parseVars, decoratorVars, decoratorHistory, utilVars>>

Delete ==
    \E f \in Paths :
        LET out == delete(Self, f) IN
        /\ Install(out.self)
        /\ last' = Call("delete", f, Bool(out.ret), cache, out.self.cache)
        /\ setOrder' = SelectSeq(setOrder, LAMBDA g : ~SameFile(g.filePath, f))
        /\ firstSets' = NotOnlySets
        /\ deleted' = deleted \cup Spellings(f)
        /\ UNCHANGED <<now, getLog>>
        /\ UNCHANGED <<extVars, parseVars, decoratorVars, decoratorHistory, utilVars>>

Clear ==
    LET out == clear(Self) IN
    /\ Install(out)
    /\ last' = Call("clear", <<>>, "", cache, out.cache)
    /\ setOrder' = <<>>
    /\ firstSets' = NotOnlySets
    /\ getLog' = [gets |-> 0, found |-> 0]
    /\ UNCHANGED <<now, deleted>>
    /\ UNCHANGED <<extVars, parseVars, decoratorVars, decoratorHistory, utilVars>>

InvalidateForHeadChange ==
    \E r \in Revs :
        LET out == invalidateForHeadChange(Self, r) IN
        /\ Install(out)
        /\ last' = Call("invalidateForHeadChange", <<>>, "", cache, out.cache)
        /\ setOrder' = SelectSeq(setOrder, LAMBDA g : g.rev = r)
        /\ firstSets' = NotOnlySets
        /\ UNCHANGED <<now, deleted, getLog>>
        /\ UNCHANGED <<extVars, parseVars, decoratorVars, decoratorHistory, utilVars>>

NextCache ==
    \/ Tick
    \/ Get
    \/ Set
    \/ Has
    \/ Delete
    \/ Clear
    \/ InvalidateForHeadChange

SpecCache == InitCache /\ [][NextCache]_vars

----------------------------------------------------------------------------
(* Claims about the cache *)

\* The entries of the cache stored for file f, under any spelling of it.
EntriesFor(m, f) == { i \in 1..Len(m) : SameFile(m[i].filePath, f) }

\* Other values the two counters could hold: none counted, only hits, only misses.
OtherCounters == { <<0, 0>>, <<MaxGets, 0>>, <<0, MaxGets>> }

\* C1: get(file, rev) returns the stored result if and only if an entry
\* exists for the file (under any spelling) and its revision equals rev; in
\* every case, a revision mismatch included, get leaves every entry of the
\* cache as it was.
C1_GetHitsIffRevisionMatches ==
    \A f \in Paths, r \in Revs :
        LET out == get(Self, f, r)
            match == { i \in EntriesFor(cache, f) : cache[i].headCommit = r }
        IN /\ (out.ret # Undefined) <=> (match # {})
           /\ \A i \in match : out.ret = cache[i].blameResult
           /\ out.self.cache = cache

\* C1 witness: a get has just missed on a file whose entry, stored under
\* another revision, is still in the cache.
C1_Witness ==
    /\ last.op = "get"
    /\ last.ret = Undefined
    /\ EntriesFor(cache, last.filePath) # {}

\* C2: the cache holds at most one entry per file, whatever the spellings
\* used, and that entry carries the revision and the result of the most
\* recent set for that file; after set(f, r1, R1); set(f', r2, R2) with f' a
\* spelling of f, get at r1 misses and get at r2 returns R2.
C2_OneEntryPerFileLatestSet ==
    /\ \A i, j \in 1..Len(cache) :
           SameFile(cache[i].filePath, cache[j].filePath) => i = j
    /\ \A i \in 1..Len(cache) :
           \E j \in 1..Len(setOrder) :
               /\ setOrder[j].filePath = cache[i].filePath
               /\ setOrder[j].rev = cache[i].headCommit
               /\ setOrder[j].res = cache[i].blameResult
    /\ \A f1 \in Paths : \A f2 \in Spellings(f1) : \A r1, r2 \in Revs :
           LET s2 == set(set(Self, f1, r1, "R1", now), f2, r2, "R2", now) IN
           /\ r1 # r2 => get(s2, f1, r1).ret = Undefined
           /\ get(s2, f1, r2).ret = "R2"
           /\ get(s2, f2, r2).ret = "R2"

\* C2 witness: a file was set under one spelling, set again under the other
\* spelling with another revision, and a get under the first spelling has
\* just returned the second result.
C2_Witness ==
    /\ last.op = "get"
    /\ last.filePath = <<"a", "/">>
    /\ last.ret = "R2"
    /\ Len(cache) = 2
    /\ \E i \in 1..Len(cache) :
           cache[i].filePath = <<"A", "\\">> /\ cache[i].headCommit = "r2"

\* C3 (as claimed): from an empty cache of capacity N, after sets of N + 1
\* different files and nothing else, exactly N entries are left and the
\* file set first is not among them.
C3_EvictsFirstOfCapacityPlusOne ==
    (firstSets.onlySets /\ Len(firstSets.files) = maxEntries + 1) =>
        /\ Len(cache) = maxEntries
        /\ EntriesFor(cache, firstSets.files[1]) = {}

\* C4 (as claimed): a set of a file that is not cached, into a cache at
\* capacity, evicts exactly the entry whose latest set is the earliest, gets
\* and has calls in between notwithstanding; a set of a cached file evicts
\* nothing.
C4_EvictsOldestInsertedOnly ==
    \A f \in Paths, r \in Revs, b \in Results :
        LET after == set(Self, f, r, b, now).cache IN
        IF EntriesFor(cache, f) = {} /\ Len(cache) >= maxEntries
        THEN Removed(cache, after) = {setOrder[1].filePath}
        ELSE Removed(cache, after) = {}

\* C5: invalidateForHeadChange(newRev) removes the entries whose revision
\* differs from newRev and nothing else: what is left has revision newRev,
\* every entry that had revision newRev is still there, unchanged and in the
\* same order, and hits and misses are as before.
C5_InvalidateKeepsExactlyNewRev ==
    \A r \in Revs :
        LET out == invalidateForHeadChange(Self, r) IN
        /\ \A i \in 1..Len(out.cache) : out.cache[i].headCommit = r
        /\ out.cache = SelectSeq(cache, LAMBDA e : e.headCommit = r)
        /\ out.hits = hits
        /\ out.misses = misses
        /\ out.maxEntries = maxEntries

\* C5 witness: an invalidation has just removed an entry and kept another,
\* with a get counted before it.
C5_Witness ==
    /\ last.op = "invalidateForHeadChange"
    /\ last.removed = 1
    /\ Len(cache) = 1
    /\ hits + misses > 0

\* C6: delete(file) removes the entry of the file whatever its revision and
\* spelling, returns true exactly when there was one, and leaves the other
\* entries and the counters alone; every get for a file deleted and not set
\* again since is a miss.
C6_DeleteRemovesOneFile ==
    /\ \A f \in Paths :
           LET out == delete(Self, f) IN
           /\ out.ret = (EntriesFor(cache, f) # {})
           /\ out.self.cache = SelectSeq(cache, LAMBDA e : ~SameFile(e.filePath, f))
           /\ out.self.hits = hits
           /\ out.self.misses = misses
           /\ \A g \in Spellings(f), r \in Revs : get(out.self, g, r).ret = Undefined
    /\ \A f \in deleted, r \in Revs : get(Self, f, r).ret = Undefined

\* C6 witness: a delete under one spelling has just removed the entry stored
\* under the other spelling, and another entry is still there.
C6_Witness ==
    /\ last.op = "delete"
    /\ last.ret = "true"
    /\ last.removed = 1
    /\ last.filePath = <<"A", "\\">>
    /\ Len(cache) = 1
    /\ hits + misses > 0

\* C7: the counters never influence the cache: with any other values of hits
\* and misses, every get, has, set, delete and invalidateForHeadChange returns
\* the same and leaves the same entries. A get adds one to exactly one of hits
\* and misses, has and set add nothing, and hitRate is 100 * hits / (hits +
\* misses), or 0 when no get was made since construction or clear.
C7_CountersObserveOnly ==
    /\ \A c \in OtherCounters :
           LET alt == [Self EXCEPT !.hits = c[1], !.misses = c[2]] IN
           /\ \A f \in Paths, r \in Revs :
                  /\ LET a == get(alt, f, r)
                         g == get(Self, f, r)
                     IN a.ret = g.ret /\ a.self.cache = g.self.cache
                  /\ LET a == has(alt, f, r)
                         g == has(Self, f, r)
                     IN a.ret = g.ret /\ a.self.cache = g.self.cache
                  /\ \A b \in Results :
                         set(alt, f, r, b, now).cache = set(Self, f, r, b, now).cache
           /\ \A f \in Paths :
                  LET a == delete(alt, f)
                      g == delete(Self, f)
                  IN a.ret = g.ret /\ a.self.cache = g.self.cache
           /\ \A r \in Revs :
                  invalidateForHeadChange(alt, r).cache = invalidateForHeadChange(Self, r).cache
    /\ \A f \in Paths, r \in Revs :
           LET g == get(Self, f, r).self IN
           /\ g.hits + g.misses = hits + misses + 1
           /\ g.hits >= hits
           /\ g.misses >= misses
           /\ has(Self, f, r).self.hits = hits
           /\ has(Self, f, r).self.misses = misses
           /\ \A b \in Results :
                  /\ set(Self, f, r, b, now).hits = hits
                  /\ set(Self, f, r, b, now).misses = misses
    /\ hits = getLog.found
    /\ misses = getLog.gets - getLog.found
    /\ LET rate == getStats(Self).hitRate IN
       IF getLog.gets = 0
       THEN rate.num = 0
       ELSE rate.num * getLog.gets = 100 * getLog.found * rate.den

\* C7 witness: a get has hit, so the hit rate is 100, and a has and a set
\* followed it.
C7_Witness ==
    /\ last.op = "has"
    /\ hits = 1
    /\ misses = 0
    /\ getStats(Self).hitRate = [num |-> 100, den |-> 1]
    /\ Len(cache) = 2

----------------------------------------------------------------------------
(* The extension: commands, listeners and the refresh, step by step *)

InitExt ==
    /\ cache = <<>>
    /\ hits = 0
    /\ misses = 0
    /\ maxEntries = DefaultMaxEntries
    /\ now = 0
    /\ last = NoCall
    /\ setOrder = <<>>
    /\ firstSets = [onlySets |-> TRUE, files |-> <<>>]
    /\ deleted = {}
    /\ getLog = [gets |-> 0, found |-> 0]
    /\ ExtIdle
    /\ UtilIdle
    /\ DecoratorIdle
    /\ head \in Revs
    /\ ParseIdle

FreeTasks == { t \in 1..MaxTasks : tasks[t].pc = "idle" }

\* LineDecorator.clearAllFromEditor(editor), seen from the tracked file.
clearAllFromEditor(editor) == IF editor = "file" THEN NoHighlight ELSE highlighted

\* refreshActiveEditor up to its first await, under mode m.
refreshActiveEditor(m) ==
    /\ refreshes < MaxRefreshes
    /\ refreshes' = refreshes + 1
    /\ IF m = "none" \/ activeEditor # "file"
       THEN /\ highlighted' = clearAllFromEditor(activeEditor)
            /\ tasks' = tasks
       ELSE /\ FreeTasks # {}
            /\ LET t == CHOOSE u \in FreeTasks : \A v \in FreeTasks : u <= v IN
               tasks' = [tasks EXCEPT ![t] = [IdleTask EXCEPT !.pc = "getRepoInfo",
                                                               !.savesAtStart = disk]]
            /\ highlighted' = highlighted

\* debouncedRefresh(): the timer is started, or started again.
debouncedRefresh == TRUE

\* The switch on this.mode at the end of the refresh.
applyHighlighting(task, blameResult) ==
    IF mode = "author"
    THEN [on |-> TRUE, blame |-> blameResult, savesAtStart |-> task.savesAtStart]
    ELSE highlighted

\* The command gitSpotlight.highlightByAuthor.
HighlightByAuthor ==
    /\ mode' = "author"
    /\ refreshActiveEditor("author")
    /\ UNCHANGED <<cacheVars, cacheHistory>>
    /\ UNCHANGED <<parseVars, decoratorVars, decoratorHistory, utilVars>>
    /\ UNCHANGED <<activeEditor, lastKnownHead, timer, headTask, head, disk>>

\* The command gitSpotlight.clear.
ExtensionClear ==
    /\ mode' = "none"
    /\ timer' = FALSE
    /\ highlighted' = NoHighlight
    /\ UNCHANGED <<cacheVars, cacheHistory>>
    /\ UNCHANGED <<parseVars, decoratorVars, decoratorHistory, utilVars>>
    /\ UNCHANGED <<activeEditor, lastKnownHead, tasks, headTask, head, disk, refreshes>>

\* The listener of onDidChangeActiveTextEditor.
OnDidChangeActiveTextEditor ==
    /\ activeEditor' \in Editors \ {activeEditor}
    /\ timer' = IF mode # "none" THEN debouncedRefresh ELSE timer
    /\ UNCHANGED <<cacheVars, cacheHistory>>
    /\ UNCHANGED <<parseVars, decoratorVars, decoratorHistory, utilVars>>
    /\ UNCHANGED <<mode, lastKnownHead, tasks, headTask, head, disk, highlighted, refreshes>>

\* The tracked file is saved, and the listener of onDidSaveTextDocument runs.
OnDidSaveTextDocument ==
    /\ disk < MaxSaves
    /\ disk' = disk + 1
    /\ IF mode # "none" /\ activeEditor = "file"
       THEN /\ Install(delete(Self, FsPath).self)
            /\ timer' = debouncedRefresh
       ELSE UNCHANGED <<cache, hits, misses, maxEntries, timer>>
    /\ UNCHANGED <<now, cacheHistory>>
    /\ UNCHANGED <<parseVars, decoratorVars, decoratorHistory, utilVars>>
    /\ UNCHANGED <<mode, activeEditor, lastKnownHead, tasks, headTask, head, highlighted, refreshes>>

\* HEAD moves to another commit; the watcher of .git/HEAD may call
\* onGitHeadChanged, which runs up to its await.
GitHeadMoves ==
    /\ head' \in Revs \ {head}
    /\ \E watched \in BOOLEAN :
        headTask' = IF watched /\ mode # "none" /\ headTask = "idle"
                    THEN "getHeadCommit" ELSE headTask
    /\ UNCHANGED <<cacheVars, cacheHistory>>
    /\ UNCHANGED <<parseVars, decoratorVars, decoratorHistory, utilVars>>
    /\ UNCHANGED <<mode, activeEditor, lastKnownHead, timer, tasks, disk, highlighted, refreshes>>

\* onGitHeadChanged after its await: getHeadCommit has answered.
OnGitHeadChanged ==
    /\ headTask = "getHeadCommit"
    /\ headTask' = "idle"
    /\ LET newHead == head
           oldHead == lastKnownHead IN
       IF newHead # oldHead
       THEN /\ lastKnownHead' = newHead
            /\ Install(invalidateForHeadChange(Self, newHead))
            /\ timer' = debouncedRefresh
       ELSE UNCHANGED <<lastKnownHead, cache, hits, misses, maxEntries, timer>>
    /\ UNCHANGED <<now, cacheHistory>>
    /\ UNCHANGED <<parseVars, decoratorVars, decoratorHistory, utilVars>>
    /\ UNCHANGED <<mode, activeEditor, tasks, head, disk, highlighted, refreshes>>

\* The timer of the debounced refresh fires.
DebounceFires ==
    /\ timer
    /\ timer' = FALSE
    /\ refreshActiveEditor(mode)
    /\ UNCHANGED <<cacheVars, cacheHistory>>
    /\ UNCHANGED <<parseVars, decoratorVars, decoratorHistory, utilVars>>
    /\ UNCHANGED <<mode, activeEditor, lastKnownHead, headTask, head, disk>>

\* refreshActiveEditor after `await getRepoInfo`: git has read HEAD.
RepoInfoDone ==
    \E t \in 1..MaxTasks :
        /\ tasks[t].pc = "getRepoInfo"
        /\ tasks' = [tasks EXCEPT ![t].pc = "isFileTracked", ![t].headCommit = head]
        /\ lastKnownHead' = head
        /\ UNCHANGED <<cacheVars, cacheHistory>>
        /\ UNCHANGED <<parseVars, decoratorVars, decoratorHistory, utilVars>>
        /\ UNCHANGED <<mode, activeEditor, timer, headTask, head, disk, highlighted, refreshes>>

\* refreshActiveEditor after `await getRemoteUrl` and `await isFileTracked`:
\* the cache is asked; a hit is highlighted at once, a miss calls getBlame.
TrackedDone ==
    \E t \in 1..MaxTasks :
        LET out == get(Self, FsPath, tasks[t].headCommit) IN
        /\ tasks[t].pc = "isFileTracked"
        /\ Install(out.self)
        /\ IF out.defined
           THEN /\ highlighted' = applyHighlighting(tasks[t], out.ret)
                /\ tasks' = [tasks EXCEPT ![t] = IdleTask]
           ELSE /\ highlighted' = highlighted
                /\ tasks' = [tasks EXCEPT ![t].pc = "getBlame"]
        /\ UNCHANGED <<now, cacheHistory>>
        /\ UNCHANGED <<parseVars, decoratorVars, decoratorHistory, utilVars>>
        /\ UNCHANGED <<mode, activeEditor, lastKnownHead, timer, headTask, head, disk, refreshes>>

\* `git blame` reads the repository and the file: its output is that of
\* the HEAD and the saved content of this moment.
GitBlameRuns ==
    \E t \in 1..MaxTasks :
        /\ tasks[t].pc = "getBlame"
        /\ tasks' = [tasks EXCEPT ![t].pc = "parseBlameOutput",
                                  ![t].blame = [head |-> head, disk |-> disk]]
        /\ UNCHANGED <<cacheVars, cacheHistory>>
        /\ UNCHANGED <<parseVars, decoratorVars, decoratorHistory, utilVars>>
        /\ UNCHANGED <<mode, activeEditor, lastKnownHead, timer, headTask, head, disk,
                       highlighted, refreshes>>

\* refreshActiveEditor after `await getBlame`: the output is parsed, stored
\* under the HEAD read at the start, and highlighted.
BlameDone ==
    \E t \in 1..MaxTasks :
        /\ tasks[t].pc = "parseBlameOutput"
        /\ Install(set(Self, FsPath, tasks[t].headCommit, tasks[t].blame, now))
        /\ highlighted' = applyHighlighting(tasks[t], tasks[t].blame)
        /\ tasks' = [tasks EXCEPT ![t] = IdleTask]
        /\ UNCHANGED <<now, cacheHistory>>
        /\ UNCHANGED <<parseVars, decoratorVars, decoratorHistory, utilVars>>
        /\ UNCHANGED <<mode, activeEditor, lastKnownHead, timer, headTask, head, disk, refreshes>>

NextExt ==
    \/ HighlightByAuthor
    \/ ExtensionClear
    \/ OnDidChangeActiveTextEditor
    \/ OnDidSaveTextDocument
    \/ GitHeadMoves
    \/ OnGitHeadChanged
    \/ DebounceFires
    \/ RepoInfoDone
    \/ TrackedDone
    \/ GitBlameRuns
    \/ BlameDone

SpecExt == InitExt /\ [][NextExt]_vars

\* C8: the extension only ever stores in the cache, under (file, rev), a
\* blame result that was computed while HEAD was rev; so no interleaving
\* of HEAD changes with a refresh makes a hit return blame data of
\* another revision.
C8_StoredUnderRevisionOfBlame ==
    \A i \in 1..Len(cache) : cache[i].blameResult.head = cache[i].headCommit

\* C9: once the document has been saved, no refresh started after the
\* save highlights it from a blame result computed before that save.
C9_NoHighlightFromBlameBeforeSave ==
    highlighted.on => highlighted.blame.disk >= highlighted.savesAtStart

----------------------------------------------------------------------------
(* parseBlameOutput, line by line, on every text of a few lines *)

MaxLines == 4

ShaA == [k \in 1..ShaLength |-> "a"]

Header(sha, origLine, finalLine) == sha \o <<" ">> \o origLine \o <<" ">> \o finalLine

HeaderLines ==
    { Header(ShaA, <<"1">>, <<"1">>),
      Header(ShaA, <<"2">>, <<"2">>) \o <<" ", "1">>,
      Header(UNCOMMITTED_SHA_PREFIX, <<"1">>, <<"1">>) }

MetadataLines ==
    { AuthorPrefix \o <<"X">>,
      AuthorPrefix \o NotCommittedYet,
      AuthorMailPrefix \o <<"m">>,
      AuthorTimePrefix \o <<"1", "2">>,
      AuthorTzPrefix \o <<"z">>,
      SummaryPrefix,
      FilenamePrefix \o <<"f">> }

OtherLines == { Tab \o <<"c">>, <<>>, <<"x">> }

InputLines == HeaderLines \cup MetadataLines \cup OtherLines

\* The lines of a text: blameOutput is these lines joined by '\n'.
Inputs == UNION { [1..n -> InputLines] : n \in 1..MaxLines }

InitParse ==
    /\ rawLines \in Inputs
    /\ iLine = 0
    /\ lines = <<>>
    /\ blameInfo = NoBlameInfo
    /\ pc = "start"
    /\ parseResult = NoReturn
    /\ cache = <<>>
    /\ hits = 0
    /\ misses = 0
    /\ maxEntries = DefaultMaxEntries
    /\ now = 0
    /\ last = NoCall
    /\ setOrder = <<>>
    /\ firstSets = [onlySets |-> TRUE, files |-> <<>>]
    /\ deleted = {}
    /\ getLog = [gets |-> 0, found |-> 0]
    /\ ExtIdle
    /\ UtilIdle
    /\ DecoratorIdle
    /\ head = "r1"

\* Mutant: the result of the catch branch.
Return_Failure(m) == [returned |-> TRUE, success |-> FALSE, lines |-> <<>>, lineCount |-> 0]

Return(m) == [returned |-> TRUE, success |-> TRUE, lines |-> m, lineCount |-> Len(m)]

\* The test on the whole text, then split('\n').
ParseStart ==
    /\ pc = "start"
    /\ IF \A k \in 1..Len(rawLines) : IsBlank(rawLines[k])
       THEN /\ parseResult' = Return(lines)
            /\ pc' = "done"
            /\ iLine' = iLine
       ELSE /\ pc' = "scan"
            /\ iLine' = 1
            /\ parseResult' = parseResult
    /\ UNCHANGED <<rawLines, lines, blameInfo>>
    /\ UNCHANGED <<cacheVars, cacheHistory, extVars, decoratorVars, decoratorHistory, utilVars>>

\* Outer loop: a blank line or a line that is not a header is skipped.
SkipLine ==
    /\ pc = "scan"
    /\ iLine <= Len(rawLines)
    /\ IsBlank(rawLines[iLine]) \/ ~headerMatch(rawLines[iLine]).matched
    /\ iLine' = iLine + 1
    /\ UNCHANGED <<rawLines, lines, blameInfo, pc, parseResult>>
    /\ UNCHANGED <<cacheVars, cacheHistory, extVars, decoratorVars, decoratorHistory, utilVars>>

\* Outer loop: a header line starts a record.
HeaderLine ==
    /\ pc = "scan"
    /\ iLine <= Len(rawLines)
    /\ ~IsBlank(rawLines[iLine])
    /\ headerMatch(rawLines[iLine]).matched
    /\ blameInfo' = newBlameInfo(headerMatch(rawLines[iLine]))
    /\ iLine' = iLine + 1
    /\ pc' = "metadata"
    /\ UNCHANGED <<rawLines, lines, parseResult>>
    /\ UNCHANGED <<cacheVars, cacheHistory, extVars, decoratorVars, decoratorHistory, utilVars>>

\* Inner loop: a line that does not start with a tab is read as metadata.
MetadataLine ==
    /\ pc = "metadata"
    /\ iLine <= Len(rawLines)
    /\ ~StartsWith(rawLines[iLine], Tab)
    /\ blameInfo' = parseMetadata(blameInfo, rawLines[iLine])
    /\ iLine' = iLine + 1
    /\ UNCHANGED <<rawLines, lines, pc, parseResult>>
    /\ UNCHANGED <<cacheVars, cacheHistory, extVars, decoratorVars, decoratorHistory, utilVars>>

\* Inner loop: the content line ends the block, and the record is stored.
ContentLine ==
    /\ pc = "metadata"
    /\ iLine <= Len(rawLines)
    /\ StartsWith(rawLines[iLine], Tab)
    /\ iLine' = iLine + 1
    /\ lines' = storeBlock(lines, blameInfo)
    /\ pc' = "scan"
    /\ UNCHANGED <<rawLines, blameInfo, parseResult>>
    /\ UNCHANGED <<cacheVars, cacheHistory, extVars, decoratorVars, decoratorHistory, utilVars>>

\* Inner loop: the text ends inside a block, and the record is stored.
EndOfBlock ==
    /\ pc = "metadata"
    /\ iLine > Len(rawLines)
    /\ lines' = storeBlock(lines, blameInfo)
    /\ pc' = "scan"
    /\ UNCHANGED <<rawLines, iLine, blameInfo, parseResult>>
    /\ UNCHANGED <<cacheVars, cacheHistory, extVars, decoratorVars, decoratorHistory, utilVars>>

\* Outer loop ended: the result is returned.
ParseReturn ==
    /\ pc = "scan"
    /\ iLine > Len(rawLines)
    /\ parseResult' = Return(lines)
    /\ pc' = "done"
    /\ UNCHANGED <<rawLines, iLine, lines, blameInfo>>
    /\ UNCHANGED <<cacheVars, cacheHistory, extVars, decoratorVars, decoratorHistory, utilVars>>

NextParse ==
    \/ ParseStart
    \/ SkipLine
    \/ HeaderLine
    \/ MetadataLine
    \/ ContentLine
    \/ EndOfBlock
    \/ ParseReturn

SpecParse == InitParse /\ [][NextParse]_vars

Prefixes ==
    { AuthorPrefix, AuthorMailPrefix, AuthorTimePrefix, AuthorTzPrefix, SummaryPrefix,
      FilenamePrefix }

IsHeaderLine(line) == ~IsBlank(line) /\ headerMatch(line).matched

\* Lines h..c of the text are a well-formed block: a header line, then
\* metadata lines (no blank line, no header, no content line, each field
\* at most once), then one content line.
WellFormedBlock(h, c) ==
    /\ h \in 1..Len(rawLines)
    /\ c \in (h + 1)..Len(rawLines)
    /\ IsHeaderLine(rawLines[h])
    /\ StartsWith(rawLines[c], Tab)
    /\ \A k \in (h + 1)..(c - 1) :
        /\ ~IsBlank(rawLines[k])
        /\ ~IsHeaderLine(rawLines[k])
        /\ ~StartsWith(rawLines[k], Tab)
    /\ \A x \in Prefixes :
        Cardinality({ k \in (h + 1)..(c - 1) : StartsWith(rawLines[k], x) }) <= 1

\* The text after prefix x in the block h..c, or '' when no line has it.
FieldText(h, c, x) ==
    LET ks == { k \in (h + 1)..(c - 1) : StartsWith(rawLines[k], x) } IN
    IF ks = {} THEN <<>>
    ELSE LET k == CHOOSE k \in ks : TRUE IN SubSeq(rawLines[k], Len(x) + 1, Len(rawLines[k]))

\* The number a run of digits writes.
NumberOf(ds) == IF ds = <<>> THEN 0 ELSE DecimalValue(ds)

\* The record under key n is the one the block h..c describes.
RecordOfBlock(n, h, c) ==
    /\ MapHas(lines, n)
    /\ LET info == MapGet(lines, n).value IN
       /\ info.commitSha = SubSeq(rawLines[h], 1, ShaLength)
       /\ info.author = FieldText(h, c, AuthorPrefix)
       /\ info.authorMail = FieldText(h, c, AuthorMailPrefix)
       /\ info.authorTime = NumberOf(FieldText(h, c, AuthorTimePrefix))
       /\ info.authorTz = FieldText(h, c, AuthorTzPrefix)
       /\ info.summary = FieldText(h, c, SummaryPrefix)
       /\ info.filename = FieldText(h, c, FilenamePrefix)

\* C10: for every well-formed block of the text, once its content line
\* has been read the lines map holds, under the final line number of the
\* block's header, a record with the header's commit id and with author,
\* author mail, author time, timezone, summary and filename equal to the
\* text after the corresponding prefix, the default when the line is absent.
C10_WellFormedBlockRoundTrip ==
    \A h \in 1..Len(rawLines), c \in 1..Len(rawLines) :
        (WellFormedBlock(h, c) /\ pc = "scan" /\ iLine = c + 1)
            => RecordOfBlock(NumberOf(headerMatch(rawLines[h]).finalLine), h, c)

\* The records of the lines map.
Records(m) == { m[k].value : k \in 1..Len(m) }

LowerCase(str) == [k \in 1..Len(str) |-> ToLowerCase(str[k])]

\* C11: every record of the lines map is uncommitted exactly when its
\* commit id is the all-zero sentinel or its author contains
\* 'not committed' ignoring letter case.
C11_UncommittedIffSentinelOrAuthor ==
    \A info \in Records(lines) :
        info.isUncommitted <=>
            \/ info.commitSha = [k \in 1..ShaLength |-> "0"]
            \/ \E k \in 0..(Len(info.author) - Len(notCommitted)) :
                  SubSeq(LowerCase(info.author), k + 1, k + Len(notCommitted)) = notCommitted

\* The text was parsed to a record with a normal commit id and the author
\* 'Not Committed Yet', uncommitted.
C11_Witness ==
    /\ parseResult.returned
    /\ \E info \in Records(parseResult.lines) :
        info.commitSha = ShaA /\ info.author = NotCommittedYet /\ info.isUncommitted

\* The blocks of the text, in order: each runs from a header line h to
\* the first content line after it, or to the end of the text (e); the
\* scan for the next header resumes after e.
RECURSIVE Blocks(_)
Blocks(p) ==
    IF p > Len(rawLines) THEN <<>>
    ELSE IF IsHeaderLine(rawLines[p])
    THEN LET tabs == { t \in (p + 1)..Len(rawLines) : StartsWith(rawLines[t], Tab) }
             e == IF tabs = {} THEN Len(rawLines)
                  ELSE CHOOSE t \in tabs : \A u \in tabs : t <= u
         IN <<[h |-> p, e |-> e]>> \o Blocks(e + 1)
    ELSE Blocks(p + 1)

\* The final line number a block carries.
FinalLineOf(b) == NumberOf(headerMatch(rawLines[b.h]).finalLine)

\* The text after prefix x in the last line of block b that has it, or ''.
LastFieldText(b, x) ==
    LET ks == { k \in (b.h + 1)..b.e : StartsWith(rawLines[k], x) } IN
    IF ks = {} THEN <<>>
    ELSE LET k == CHOOSE k \in ks : \A j \in ks : j <= k IN
         SubSeq(rawLines[k], Len(x) + 1, Len(rawLines[k]))

\* Record info holds what block b says and nothing else.
IsRecordOf(info, b) ==
    /\ info.lineNumber = FinalLineOf(b)
    /\ info.commitSha = SubSeq(rawLines[b.h], 1, ShaLength)
    /\ info.author = LastFieldText(b, AuthorPrefix)
    /\ info.authorMail = LastFieldText(b, AuthorMailPrefix)
    /\ info.authorTime = NumberOf(LastFieldText(b, AuthorTimePrefix))
    /\ info.authorTz = LastFieldText(b, AuthorTzPrefix)
    /\ info.summary = LastFieldText(b, SummaryPrefix)
    /\ info.filename = LastFieldText(b, FilenamePrefix)

\* The last block of bs that carries final line number n.
LastBlockFor(bs, n) ==
    bs[CHOOSE k \in 1..Len(bs) :
          /\ FinalLineOf(bs[k]) = n
          /\ \A j \in (k + 1)..Len(bs) : FinalLineOf(bs[j]) # n]

\* C12: the returned map has one entry for each final line number carried
\* by a block of the text, keyed by that number; the entry is the record of
\* the last block with that number and holds nothing of an earlier one;
\* success is true and lineCount is the number of entries.
C12_LastBlockWins ==
    parseResult.returned =>
        LET m == parseResult.lines
            bs == Blocks(1)
        IN /\ parseResult.success
           /\ parseResult.lineCount = Len(m)
           /\ \A j, k \in 1..Len(m) : m[j].key = m[k].key => j = k
           /\ MapKeys(m) = { FinalLineOf(bs[k]) : k \in 1..Len(bs) }
           /\ \A k \in 1..Len(m) : IsRecordOf(m[k].value, LastBlockFor(bs, m[k].key))

\* A text was parsed whose first block has an author and whose second
\* block has the same final line number, another commit id and no author.
C12_Witness ==
    /\ parseResult.returned
    /\ LET bs == Blocks(1) IN
       /\ Len(bs) = 2
       /\ FinalLineOf(bs[1]) = FinalLineOf(bs[2])
       /\ LastFieldText(bs[1], AuthorPrefix) # <<>>
       /\ LastFieldText(bs[2], AuthorPrefix) = <<>>
       /\ rawLines[bs[1].h] # rawLines[bs[2].h]

\* The final line numbers of the header lines among the first n lines.
HeaderNumbers(n) ==
    { NumberOf(headerMatch(rawLines[k]).finalLine) :
        k \in { j \in 1..n : IsHeaderLine(rawLines[j]) } }

\* How far parseBlameOutput is from returning: twice the lines still to
\* read, plus what the loops have left to do at the current line.
StepsLeft ==
    CASE pc = "start" -> 2 * Len(rawLines) + 4
      [] pc = "scan" -> 2 * (Len(rawLines) + 1 - iLine) + 1
      [] pc = "metadata" -> 2 * (Len(rawLines) + 1 - iLine) + 2
      [] OTHER -> 0

\* Before the return one of the two loops has a line to read or an end
\* of text to act on.
CanStep ==
    \/ pc = "start"
    \/ pc \in {"scan", "metadata"} /\ iLine \in 1..Len(rawLines)
    \/ pc \in {"scan", "metadata"} /\ iLine = Len(rawLines) + 1

\* C13: on every text parseBlameOutput terminates (until it has returned
\* it can always take a step, and every step brings it closer to the
\* return) and returns success = true; records come from header lines
\* only, so that blank lines, content lines outside a block and unknown
\* lines add none; a text without a header line gives lineCount 0 and an
\* empty map.
C13_AlwaysReturnsSuccess ==
    /\ [][StepsLeft' < StepsLeft]_vars
    /\ [](StepsLeft >= 0)
    /\ [](~parseResult.returned => CanStep)
    /\ [](MapKeys(lines) \subseteq HeaderNumbers(Len(rawLines)))
    /\ [](parseResult.returned =>
            /\ parseResult.success
            /\ HeaderNumbers(Len(rawLines)) = {} =>
                  parseResult.lineCount = 0 /\ parseResult.lines = <<>>)

\* A text with a blank line, a content line and an unknown line and no
\* header was parsed, and so was a text of blank lines only.
C13_Witness ==
    /\ parseResult.returned
    /\ HeaderNumbers(Len(rawLines)) = {}
    /\ \E j, k, n \in 1..Len(rawLines) :
        /\ IsBlank(rawLines[j])
        /\ StartsWith(rawLines[k], Tab)
        /\ rawLines[n] = <<"x">>

----------------------------------------------------------------------------
(* The line filters of the blame parser *)

\* Array.prototype.sort((a, b) => a - b) on numbers.
InsertAscending(x, sorted) ==
    LET k == Cardinality({ j \in 1..Len(sorted) : sorted[j] <= x })
    IN  SubSeq(sorted, 1, k) \o <<x>> \o SubSeq(sorted, k + 1, Len(sorted))

RECURSIVE sortAscending(_)
sortAscending(numbers) ==
    IF numbers = <<>> THEN <<>>
    ELSE InsertAscending(Head(numbers), sortAscending(Tail(numbers)))

\* The keys of the entries, in the order forEach visits them.
KeysOf(entries) == [k \in 1..Len(entries) |-> entries[k].key]

\* info.authorTime >= cutoffTimestamp / 1000: a comparison with NaN is false;
\* for a whole number of seconds t, t >= c / 1000 exactly when 1000 t >= c.
AtOrAfter(authorTime, cutoffTimestamp) ==
    /\ authorTime # NaN
    /\ authorTime * 1000 >= cutoffTimestamp

\* Mutant: the uncommitted lines pass the time filter as well.
filterLinesByTime_KeepsUncommitted(blameResult, cutoffTimestamp) ==
    sortAscending(KeysOf(SelectSeq(blameResult.lines,
        LAMBDA e : AtOrAfter(e.value.authorTime, cutoffTimestamp))))

filterLinesByTime(blameResult, cutoffTimestamp) ==
    sortAscending(KeysOf(SelectSeq(blameResult.lines,
        LAMBDA e : ~e.value.isUncommitted /\ AtOrAfter(e.value.authorTime, cutoffTimestamp))))

getUncommittedLines(blameResult) ==
    sortAscending(KeysOf(SelectSeq(blameResult.lines, LAMBDA e : e.value.isUncommitted)))

----------------------------------------------------------------------------
(* The color generator (src/src/utils/colorGenerator.ts) *)

\* The printable characters in the order of their codes: from 32 to 95 and
\* from 97 to 126 (the grave accent, code 96, cannot be written here).
AsciiFromSpace ==
    << " ", "!", "\"", "#", "$", "%", "&", "'", "(", ")", "*", "+", ",", "-", ".", "/",
       "0", "1", "2", "3", "4", "5", "6", "7", "8", "9", ":", ";", "<", "=", ">", "?",
       "@", "A", "B", "C", "D", "E", "F", "G", "H", "I", "J", "K", "L", "M", "N", "O",
       "P", "Q", "R", "S", "T", "U", "V", "W", "X", "Y", "Z", "[", "\\", "]", "^", "_" >>

AsciiFromLowerA ==
    << "a", "b", "c", "d", "e", "f", "g", "h", "i", "j", "k", "l", "m", "n", "o", "p",
       "q", "r", "s", "t", "u", "v", "w", "x", "y", "z", "{", "|", "}", "~" >>

CodeOfSpace == 32
CodeOfLowerA == 97

\* String.prototype.charCodeAt, per character.
charCodeAt ==
    [c \in { AsciiFromSpace[k] : k \in 1..Len(AsciiFromSpace) }
           \cup { AsciiFromLowerA[k] : k \in 1..Len(AsciiFromLowerA) } |->
        IF \E k \in 1..Len(AsciiFromSpace) : AsciiFromSpace[k] = c
        THEN CodeOfSpace - 1 + CHOOSE k \in 1..Len(AsciiFromSpace) : AsciiFromSpace[k] = c
        ELSE CodeOfLowerA - 1 + CHOOSE k \in 1..Len(AsciiFromLowerA) : AsciiFromLowerA[k] = c]

\* A signed 32-bit integer as its two 16-bit halves.
Half == 65536
Low16(n) == n % Half
High16(n) == (n - Low16(n)) \div Half

\* One round of the djb2 loop: ((hash << 5) + hash) + code, then hash & hash,
\* which keeps the low 32 bits as a signed integer.
hashRound(hash, code) ==
    LET low == Low16(hash) * 33 + code
        high == (High16(hash) * 33 + (low \div Half)) % Half
        signedHigh == IF high >= Half \div 2 THEN high - Half ELSE high
    IN  signedHigh * Half + (low % Half)

Djb2Seed == 5381

\* The loop of hashString over str.substring(k - 1), entered with hash.
RECURSIVE hashLoop(_, _, _)
hashLoop(hash, str, k) ==
    IF k > Len(str) THEN hash
    ELSE LET next == hashRound(hash, charCodeAt[str[k]])
         IN  IF next \in Int THEN hashLoop(next, str, k + 1) ELSE next

\* hashString before its Math.abs: a signed 32-bit integer.
hashString(str) == hashLoop(Djb2Seed, str, 1)

\* Hues are in thousandths of a degree.
FullTurn == 360000

\* Math.abs(hash) % 360, in thousandths: |hash| itself may be 2^31.
AbsMod(hash) ==
    IF hash >= 0 THEN hash % FullTurn ELSE (((-(hash + 1)) % FullTurn) + 1) % FullTurn

\* (Math.abs(hash) * 137.508) % 360 in exact arithmetic, the product
\* 137508 a taken as 137 (1000 a) + 508 a to stay within 32 bits.
hueOf(hash) ==
    LET a == AbsMod(hash)
    IN  (((a * 1000) % FullTurn) * 137 + a * 508) % FullTurn

Abs(n) == IF n < 0 THEN -n ELSE n

\* Math.round(v * 255) for v = n / 600000000.
Round255(n) ==
    LET unit == 40000000
    IN  17 * (n \div unit) + ((17 * (n % unit) + (unit \div 2)) \div unit)

\* hslToRgba, in exact arithmetic: h in thousandths of a degree, s and l in
\* percent. c = cc / 10000, m = mm / 20000, x = cc * ramp / 600000000. The
\* string 'rgba(r, g, b, a)' is the record of its four numbers.
hslToRgba(h, s, l, a) ==
    LET cc == (100 - Abs(2 * l - 100)) * s
        mm == 200 * l - cc
        ramp == 60000 - Abs((h % 120000) - 60000)
        c == cc * 60000
        x == cc * ramp
        sector == IF h >= 0 /\ h < FullTurn THEN h \div 60000 ELSE 6
        rgb == CASE sector = 0 -> <<c, x, 0>>
                 [] sector = 1 -> <<x, c, 0>>
                 [] sector = 2 -> <<0, c, x>>
                 [] sector = 3 -> <<0, x, c>>
                 [] sector = 4 -> <<x, 0, c>>
                 [] sector = 5 -> <<c, 0, x>>
                 [] OTHER -> <<0, 0, 0>>
    IN  [r |-> Round255(rgb[1] + 30000 * mm), g |-> Round255(rgb[2] + 30000 * mm),
         b |-> Round255(rgb[3] + 30000 * mm), a |-> a]

generateColor(identifier, saturation, lightness, opacity) ==
    hslToRgba(hueOf(hashString(identifier)), saturation, lightness, opacity)

----------------------------------------------------------------------------
(* The heatmap (src/src/highlight/heatmap.ts, lines 1 to 205) *)

\* A ratio of two integers: num / den with den > 0.
Ratio(num, den) == [num |-> num, den |-> den]

ColdHue == 240
HotHue == 160
Buckets == 20

\* interpolateHue, then hslToRgba: the hue in thousandths of a degree,
\* rounded down to a whole thousandth.
getHeatmapColor(ageRatio, config) ==
    hslToRgba(config.coldHue * 1000
                  + (((config.hotHue - config.coldHue) * 1000 * ageRatio.num) \div ageRatio.den),
              config.saturation, config.lightness, config.opacity)

\* The first loop of calculateHeatmap: the timestamps it takes the minimum
\* and the maximum of. (A comparison with NaN is false.)
TimedCommitted(blameResult) ==
    { blameResult.lines[k].value.authorTime : k \in
        { j \in 1..Len(blameResult.lines) :
            /\ ~blameResult.lines[j].value.isUncommitted
            /\ blameResult.lines[j].value.authorTime > 0 } }

MinOf(S) == CHOOSE x \in S : \A y \in S : x <= y
MaxOf(S) == CHOOSE x \in S : \A y \in S : x >= y

\* Sorting the data by line number: the line numbers are the keys of a Map,
\* so no two data have the same.
sortByLineNumber(data) ==
    LET order == sortAscending([k \in 1..Len(data) |-> data[k].lineNumber])
    IN  [k \in 1..Len(data) |->
            data[CHOOSE j \in 1..Len(data) : data[j].lineNumber = order[k]]]

calculateHeatmap(blameResult, config) ==
    LET times == TimedCommitted(blameResult)
        minTime == MinOf(times)
        timeRange == MaxOf(times) - minTime
        committed == SelectSeq(blameResult.lines, LAMBDA e : ~e.value.isUncommitted)
        Datum(e) ==
            LET ageRatio == IF timeRange > 0
                            THEN Ratio(e.value.authorTime - minTime, timeRange)
                            ELSE Ratio(0, 1)
            IN  [lineNumber |-> e.key, color |-> getHeatmapColor(ageRatio, config),
                 ageRatio |-> ageRatio, timestamp |-> e.value.authorTime]
    IN  IF times = {} THEN <<>>
        ELSE sortByLineNumber([k \in 1..Len(committed) |-> Datum(committed[k])])

\* Math.min(Math.floor(ageRatio * buckets), buckets - 1)
bucketIndexOf(ageRatio, buckets) ==
    LET floored == (ageRatio.num * buckets) \div ageRatio.den
    IN  IF floored < buckets - 1 THEN floored ELSE buckets - 1

\* [...new Set(values)]: the first occurrence of each value, in order.
Dedupe(values) ==
    LET firsts == SelectSeq([k \in 1..Len(values) |-> k],
                            LAMBDA k : \A j \in 1..(k - 1) : values[j] # values[k])
    IN  [k \in 1..Len(firsts) |-> values[firsts[k]]]

\* The Map from bucket index to { color, lines }, in insertion order.
groupHeatmapByColor(heatmapData, buckets, config) ==
    LET indexes == Dedupe([k \in 1..Len(heatmapData) |->
                              bucketIndexOf(heatmapData[k].ageRatio, buckets)])
    IN  [g \in 1..Len(indexes) |->
            [key |-> indexes[g],
             value |-> [color |-> getHeatmapColor(Ratio(2 * indexes[g] + 1, 2 * buckets), config),
                        lines |-> LET members == SelectSeq(heatmapData, LAMBDA d :
                                          bucketIndexOf(d.ageRatio, buckets) = indexes[g])
                                  IN  [k \in 1..Len(members) |-> members[k].lineNumber]]]]

----------------------------------------------------------------------------
(* The line decorator (src/src/highlight/heatmap.ts, from line 206) *)

\* The decorator and the editor it paints, as one record.
Decorator(static, dynamic, highlights) ==
    [staticDecorations |-> static, dynamicDecorations |-> dynamic,
     highlightedLines |-> highlights]

\* The ranges of the lines that exist in the document and have a blame
\* record (the hover text of a range is left out).
createDecorationRanges(lineCount, lineNumbers, blameResult) ==
    SelectSeq(lineNumbers, LAMBDA n :
        /\ ~(n - 1 < 0 \/ n - 1 >= lineCount)
        /\ MapHas(blameResult.lines, n))

\* editor.setDecorations(type, []) for every type, fixed and dynamic.
LineDecorator_clearAllFromEditor(d) ==
    [d EXCEPT !.staticDecorations = NoStaticDecorations,
              !.dynamicDecorations = [k \in 1..Len(@) |-> [@[k] EXCEPT !.lines = <<>>]]]

clearDynamicDecorations(d) == [d EXCEPT !.dynamicDecorations = <<>>]

clearAllDecorations(d) ==
    [clearDynamicDecorations(LineDecorator_clearAllFromEditor(d)) EXCEPT !.highlightedLines = <<>>]

\* getDynamicDecoration(key, color), then editor.setDecorations on what it
\* returned: a decoration that exists under the key is used as it is.
setDynamicDecoration(dynamic, key, color, ranges) ==
    IF \E k \in 1..Len(dynamic) : dynamic[k].key = key
    THEN [k \in 1..Len(dynamic) |->
            IF dynamic[k].key = key THEN [dynamic[k] EXCEPT !.lines = ranges] ELSE dynamic[k]]
    ELSE Append(dynamic, [key |-> key, color |-> color, lines |-> ranges])

\* The groups of a Map<string, number[]> filled by a forEach: one group for
\* each value of the field by, in the order of first appearance.
GroupLines(entries, by) ==
    LET groupKeys == Dedupe([k \in 1..Len(entries) |-> entries[k].value[by]])
    IN  [g \in 1..Len(groupKeys) |->
            [key |-> groupKeys[g],
             lines |-> KeysOf(SelectSeq(entries, LAMBDA e : e.value[by] = groupKeys[g]))]]

AuthorKeyPrefix == <<"a", "u", "t", "h", "o", "r", ":">>
CommitKeyPrefix == <<"c", "o", "m", "m", "i", "t", ":">>
HeatmapKeyPrefix == <<"h", "e", "a", "t", "m", "a", "p", ":">>

\* The forEach that paints each group with its own dynamic decoration.
RECURSIVE paintGroups(_, _, _, _, _, _, _)
paintGroups(dynamic, groups, g, keyPrefix, settings, lineCount, blameResult) ==
    IF g > Len(groups) THEN dynamic
    ELSE paintGroups(
            setDynamicDecoration(dynamic, keyPrefix \o groups[g].key,
                generateColor(groups[g].key, settings.colorSaturation,
                              settings.colorLightness, settings.colorOpacity),
                createDecorationRanges(lineCount, groups[g].lines, blameResult)),
            groups, g + 1, keyPrefix, settings, lineCount, blameResult)

\* The uncommitted decoration of the author, commit and heatmap modes.
paintUncommitted(static, settings, lineCount, blameResult, uncommittedLines) ==
    IF settings.enableUncommittedHighlight /\ Len(uncommittedLines) > 0
    THEN [static EXCEPT !.uncommitted =
              createDecorationRanges(lineCount, uncommittedLines, blameResult)]
    ELSE static

\* Mutant: the uncommitted lines are navigated to whatever the setting.
applyAgeHighlighting_AlwaysUncommitted(d, settings, lineCount, blameResult, recentLines, uncommittedLines) ==
    LET cleared == LineDecorator_clearAllFromEditor(d)
        withAge == [cleared.staticDecorations EXCEPT !.age =
                        createDecorationRanges(lineCount, recentLines, blameResult)]
    IN  Decorator(
            IF settings.enableUncommittedHighlight
            THEN [withAge EXCEPT !.uncommitted =
                      createDecorationRanges(lineCount, uncommittedLines, blameResult)]
            ELSE withAge,
            cleared.dynamicDecorations,
            sortAscending(Dedupe(recentLines \o uncommittedLines)))

applyAgeHighlighting(d, settings, lineCount, blameResult, recentLines, uncommittedLines) ==
    LET cleared == LineDecorator_clearAllFromEditor(d)
        allHighlightedLines ==
            IF settings.enableUncommittedHighlight
            THEN recentLines \o uncommittedLines ELSE recentLines
        withAge == [cleared.staticDecorations EXCEPT !.age =
                        createDecorationRanges(lineCount, recentLines, blameResult)]
    IN  Decorator(
            IF settings.enableUncommittedHighlight
            THEN [withAge EXCEPT !.uncommitted =
                      createDecorationRanges(lineCount, uncommittedLines, blameResult)]
            ELSE withAge,
            cleared.dynamicDecorations,
            sortAscending(Dedupe(allHighlightedLines)))

\* applyAuthorHighlighting (by is the field author) and
\* applyCommitHighlighting (by is the field commitSha): the two methods
\* differ in nothing else.
applyGroupHighlighting(d, settings, lineCount, blameResult, uncommittedLines, by, keyPrefix) ==
    LET cleared == clearDynamicDecorations(LineDecorator_clearAllFromEditor(d))
        committed == SelectSeq(blameResult.lines, LAMBDA e : ~e.value.isUncommitted)
        groups == GroupLines(committed, by)
        allHighlightedLines ==
            IF settings.enableUncommittedHighlight
            THEN KeysOf(committed) \o uncommittedLines ELSE KeysOf(committed)
    IN  Decorator(
            paintUncommitted(cleared.staticDecorations, settings, lineCount, blameResult,
                             uncommittedLines),
            paintGroups(cleared.dynamicDecorations, groups, 1, keyPrefix, settings, lineCount,
                        blameResult),
            sortAscending(Dedupe(allHighlightedLines)))

\* Mutant: the lines are grouped by commit under the keys of the authors.
applyAuthorHighlighting_ByCommit(d, settings, lineCount, blameResult, uncommittedLines) ==
    applyGroupHighlighting(d, settings, lineCount, blameResult, uncommittedLines,
                           "commitSha", AuthorKeyPrefix)

applyAuthorHighlighting(d, settings, lineCount, blameResult, uncommittedLines) ==
    applyGroupHighlighting(d, settings, lineCount, blameResult, uncommittedLines,
                           "author", AuthorKeyPrefix)

applyCommitHighlighting(d, settings, lineCount, blameResult, uncommittedLines) ==
    applyGroupHighlighting(d, settings, lineCount, blameResult, uncommittedLines,
                           "commitSha", CommitKeyPrefix)

\* The selected decoration on the lines of the matching entries.
applySelected(d, lineCount, blameResult, matching) ==
    LET cleared == LineDecorator_clearAllFromEditor(d)
        matchingLines == sortAscending(KeysOf(matching))
    IN  Decorator(
            [cleared.staticDecorations EXCEPT !.selected =
                 createDecorationRanges(lineCount, matchingLines, blameResult)],
            cleared.dynamicDecorations,
            matchingLines)

\* Mutant: an author whose name contains the target matches.
applySpecificAuthorHighlighting_Substring(d, lineCount, blameResult, authorName) ==
    applySelected(d, lineCount, blameResult,
                  SelectSeq(blameResult.lines,
                            LAMBDA e : Includes(LowerCase(e.value.author), LowerCase(authorName))))

applySpecificAuthorHighlighting(d, lineCount, blameResult, authorName) ==
    applySelected(d, lineCount, blameResult,
                  SelectSeq(blameResult.lines,
                            LAMBDA e : LowerCase(e.value.author) = LowerCase(authorName)))

applySpecificCommitHighlighting(d, lineCount, blameResult, commitSha) ==
    applySelected(d, lineCount, blameResult,
                  SelectSeq(blameResult.lines,
                            LAMBDA e : StartsWith(e.value.commitSha, commitSha)))

Digits10 == <<"0", "1", "2", "3", "4", "5", "6", "7", "8", "9">>

\* Number.prototype.toString of an integer, as used in a template string.
RECURSIVE DigitsOf(_)
DigitsOf(n) ==
    IF n < 10 THEN <<Digits10[n + 1]>> ELSE DigitsOf(n \div 10) \o <<Digits10[(n % 10) + 1]>>

NumberToString(n) == IF n < 0 THEN <<"-">> \o DigitsOf(-n) ELSE DigitsOf(n)

\* The forEach that paints each bucket of the heatmap.
RECURSIVE paintBuckets(_, _, _, _, _)
paintBuckets(dynamic, heatmapGroups, g, lineCount, blameResult) ==
    IF g > Len(heatmapGroups) THEN dynamic
    ELSE paintBuckets(
            setDynamicDecoration(dynamic,
                HeatmapKeyPrefix \o NumberToString(heatmapGroups[g].key),
                heatmapGroups[g].value.color,
                createDecorationRanges(lineCount, heatmapGroups[g].value.lines, blameResult)),
            heatmapGroups, g + 1, lineCount, blameResult)

\* allHighlightedLines.push(...group.lines) over the buckets, in their order.
RECURSIVE linesOfGroups(_, _)
linesOfGroups(heatmapGroups, g) ==
    IF g > Len(heatmapGroups) THEN <<>>
    ELSE heatmapGroups[g].value.lines \o linesOfGroups(heatmapGroups, g + 1)

applyHeatmapHighlighting(d, settings, lineCount, blameResult, uncommittedLines) ==
    LET cleared == clearDynamicDecorations(LineDecorator_clearAllFromEditor(d))
        config == [coldHue |-> ColdHue, hotHue |-> HotHue,
                   saturation |-> settings.colorSaturation,
                   lightness |-> settings.colorLightness,
                   opacity |-> settings.colorOpacity]
        heatmapGroups == groupHeatmapByColor(calculateHeatmap(blameResult, config),
                                             Buckets, config)
        allHighlightedLines ==
            IF settings.enableUncommittedHighlight
            THEN linesOfGroups(heatmapGroups, 1) \o uncommittedLines
            ELSE linesOfGroups(heatmapGroups, 1)
    IN  Decorator(
            paintUncommitted(cleared.staticDecorations, settings, lineCount, blameResult,
                             uncommittedLines),
            paintBuckets(cleared.dynamicDecorations, heatmapGroups, 1, lineCount, blameResult),
            sortAscending(Dedupe(allHighlightedLines)))

\* What a navigation returns: undefined, or the line it moved to.
NoLine == [defined |-> FALSE, line |-> 0]
Line(n) == [defined |-> TRUE, line |-> n]

\* Mutant: the line under the cursor counts as the next one.
goToNextHighlight_AtOrAfter(highlights, active) ==
    IF Len(highlights) = 0 THEN NoLine
    ELSE LET currentLine == active + 1
             after == SelectSeq(highlights, LAMBDA line : line >= currentLine)
         IN  Line(IF Len(after) > 0 THEN after[1] ELSE highlights[1])

\* goToNextHighlight: find is the first element, in the order of the array,
\* that passes the test.
goToNextHighlight(highlights, active) ==
    IF Len(highlights) = 0 THEN NoLine
    ELSE LET currentLine == active + 1
             after == SelectSeq(highlights, LAMBDA line : line > currentLine)
         IN  Line(IF Len(after) > 0 THEN after[1] ELSE highlights[1])

goToPreviousHighlight(highlights, active) ==
    IF Len(highlights) = 0 THEN NoLine
    ELSE LET currentLine == active + 1
             previousLines == SelectSeq(highlights, LAMBDA line : line < currentLine)
         IN  Line(IF Len(previousLines) > 0 THEN previousLines[Len(previousLines)]
                  ELSE highlights[Len(highlights)])

\* revealLine: the selection moves to the start of the line.
revealLine(lineNumber) == lineNumber - 1

----------------------------------------------------------------------------
(* The line decorator at work on one blamed document *)

MaxBlameLines == 3

\* Commit ids: ShaB differs from ShaA in its last character only.
ShaB == [k \in 1..ShaLength |-> IF k = ShaLength THEN "b" ELSE "a"]
ShaC == [k \in 1..ShaLength |-> "c"]

\* The commits of the blamed file: two authors whose names differ in letter
\* case only, one whose name extends theirs and whose commit is dated at the
\* epoch, and the working tree, whose lines carry a timestamp too.
BlameCommits ==
    { [commitSha |-> ShaA, author |-> <<"X">>, authorTime |-> 5],
      [commitSha |-> ShaB, author |-> <<"x">>, authorTime |-> 9],
      [commitSha |-> ShaC, author |-> <<"X", "y">>, authorTime |-> 0],
      [commitSha |-> UNCOMMITTED_SHA_PREFIX, author |-> NotCommittedYet, authorTime |-> 7] }

\* The record parseBlameOutput stores for line n of commit c.
LineInfo(n, c) ==
    markUncommitted(
        [newBlameInfo([matched |-> TRUE, sha |-> c.commitSha, finalLine |-> DigitsOf(n)])
            EXCEPT !.author = c.author, !.authorTime = c.authorTime])

BlameEntries ==
    { [key |-> n, value |-> LineInfo(n, c)] : n \in 1..MaxBlameLines, c \in BlameCommits }

\* The Map of a blame result: its line numbers inserted in ascending order,
\* as git blame writes them, or in descending order.
BlameMaps ==
    UNION { { m \in [1..k -> BlameEntries] :
                \/ \A j \in 1..(k - 1) : m[j].key < m[j + 1].key
                \/ \A j \in 1..(k - 1) : m[j].key > m[j + 1].key } : k \in 0..MaxBlameLines }

BlameResults == { [success |-> TRUE, lines |-> m, lineCount |-> Len(m)] : m \in BlameMaps }

\* The document is one line shorter than the longest blame: an edit that
\* is not saved removed its last line.
DocumentLineCounts == { MaxBlameLines - 1 }

\* Cutoffs of the age mode, in milliseconds.
Cutoffs == { 0, 5000, 5001 }

\* Targets of the single-author mode and of the single-commit mode (a full
\* id, an abbreviated one, the id of the working tree).
AuthorTargets == { <<"x">>, <<"X", "Y">>, NotCommittedYet }
CommitTargets == { ShaA, SubSeq(ShaA, 1, 8), UNCOMMITTED_SHA_PREFIX }

InitDecorator ==
    /\ editorBlame \in BlameResults
    /\ currentSettings \in { [DEFAULT_SETTINGS EXCEPT !.enableUncommittedHighlight = e] :
                               e \in BOOLEAN }
    /\ documentLineCount \in DocumentLineCounts
    /\ staticDecorations = NoStaticDecorations
    /\ dynamicDecorations = <<>>
    /\ highlightedLines = <<>>
    /\ activeLine = 0
    /\ navigated = NoNavigation
    /\ lastApply = NoApply
    /\ cache = <<>>
    /\ hits = 0
    /\ misses = 0
    /\ maxEntries = DefaultMaxEntries
    /\ now = 0
    /\ last = NoCall
    /\ setOrder = <<>>
    /\ firstSets = [onlySets |-> TRUE, files |-> <<>>]
    /\ deleted = {}
    /\ getLog = [gets |-> 0, found |-> 0]
    /\ ExtIdle
    /\ UtilIdle
    /\ head = "r1"
    /\ ParseIdle

\* The decorator and the editor, as they are.
TheDecorator == Decorator(staticDecorations, dynamicDecorations, highlightedLines)

\* A highlight operation has run: what it left, and the history of it.
Applied(d, op, cutoff, target) ==
    /\ staticDecorations' = d.staticDecorations
    /\ dynamicDecorations' = d.dynamicDecorations
    /\ highlightedLines' = d.highlightedLines
    /\ lastApply' = [op |-> op, cutoff |-> cutoff, target |-> target]
    /\ navigated' = NoNavigation
    /\ UNCHANGED <<editorBlame, currentSettings, documentLineCount, activeLine>>
    /\ UNCHANGED <<cacheVars, cacheHistory, extVars, parseVars, utilVars>>

\* The switch of refreshActiveEditor, case 'age'.
RefreshAge(cutoff) ==
    Applied(applyAgeHighlighting(TheDecorator, currentSettings, documentLineCount, editorBlame,
                                 filterLinesByTime(editorBlame, cutoff),
                                 getUncommittedLines(editorBlame)),
            "age", cutoff, <<>>)

RefreshAuthor ==
    Applied(applyAuthorHighlighting(TheDecorator, currentSettings, documentLineCount,
                                    editorBlame, getUncommittedLines(editorBlame)),
            "author", 0, <<>>)

RefreshCommit ==
    Applied(applyCommitHighlighting(TheDecorator, currentSettings, documentLineCount,
                                    editorBlame, getUncommittedLines(editorBlame)),
            "commit", 0, <<>>)

RefreshSpecificAuthor(authorName) ==
    Applied(applySpecificAuthorHighlighting(TheDecorator, documentLineCount, editorBlame,
                                            authorName),
            "specificAuthor", 0, authorName)

RefreshSpecificCommit(sha) ==
    Applied(applySpecificCommitHighlighting(TheDecorator, documentLineCount, editorBlame,
                                            sha),
            "specificCommit", 0, sha)

RefreshHeatmap ==
    Applied(applyHeatmapHighlighting(TheDecorator, currentSettings, documentLineCount,
                                     editorBlame, getUncommittedLines(editorBlame)),
            "heatmap", 0, <<>>)

\* The clear command, as far as the line decorator goes.
DecoratorClear ==
    /\ lastApply.op # "none"
    /\ Applied(clearAllDecorations(TheDecorator), "none", 0, <<>>)

NextDecorator ==
    \/ \E cutoff \in Cutoffs : RefreshAge(cutoff)
    \/ RefreshAuthor
    \/ RefreshCommit
    \/ \E authorName \in AuthorTargets : RefreshSpecificAuthor(authorName)
    \/ \E sha \in CommitTargets : RefreshSpecificCommit(sha)
    \/ RefreshHeatmap
    \/ DecoratorClear

SpecDecorator == InitDecorator /\ [][NextDecorator]_vars

\* The modes that need a target, and a target that is not set (undefined).
ParameterizedModes == {"specificAuthor", "specificCommit", "branchDiff"}
NoTarget == <<>>

\* The switch of refreshActiveEditor in a parameterized mode m whose target
\* is not set: the test `if (this.selectedAuthor)` (selectedCommit,
\* selectedBranch) fails, no method of the decorator is called, and the
\* case ends at its break.
refreshWithoutTarget(d, m) == d

RefreshWithoutTarget(m) ==
    Applied(refreshWithoutTarget(TheDecorator, m), m, 0, NoTarget)

\* The switch with every mode and with targets set or not.
NextSwitch ==
    \/ NextDecorator
    \/ \E m \in ParameterizedModes : RefreshWithoutTarget(m)

SpecSwitch == InitDecorator /\ [][NextSwitch]_vars

----------------------------------------------------------------------------
(* Navigation over the highlighted lines *)

MaxNavLines == 4

\* What the highlight operations leave in highlightedLines: line numbers in
\* ascending order, none twice.
AscendingLines ==
    UNION { { h \in [1..k -> 1..MaxNavLines] : \A j \in 1..(k - 1) : h[j] < h[j + 1] } :
              k \in 0..MaxNavLines }

InitNavigate ==
    /\ highlightedLines \in AscendingLines
    /\ documentLineCount = MaxNavLines
    /\ activeLine \in 0..(MaxNavLines - 1)
    /\ editorBlame = EmptyBlame
    /\ currentSettings = DEFAULT_SETTINGS
    /\ staticDecorations = NoStaticDecorations
    /\ dynamicDecorations = <<>>
    /\ navigated = NoNavigation
    /\ lastApply = NoApply
    /\ cache = <<>>
    /\ hits = 0
    /\ misses = 0
    /\ maxEntries = DefaultMaxEntries
    /\ now = 0
    /\ last = NoCall
    /\ setOrder = <<>>
    /\ firstSets = [onlySets |-> TRUE, files |-> <<>>]
    /\ deleted = {}
    /\ getLog = [gets |-> 0, found |-> 0]
    /\ ExtIdle
    /\ UtilIdle
    /\ head = "r1"
    /\ ParseIdle

\* A navigation command has run from the line the cursor was on.
Navigated(op, out) ==
    /\ navigated' = [op |-> op, from |-> activeLine, defined |-> out.defined, line |-> out.line]
    /\ activeLine' = IF out.defined THEN revealLine(out.line) ELSE activeLine
    /\ UNCHANGED <<editorBlame, currentSettings, documentLineCount, staticDecorations,
                   dynamicDecorations, highlightedLines, lastApply>>
    /\ UNCHANGED <<cacheVars, cacheHistory, extVars, parseVars, utilVars>>

NextHighlight == Navigated("next", goToNextHighlight(highlightedLines, activeLine))

PreviousHighlight == Navigated("previous", goToPreviousHighlight(highlightedLines, activeLine))

\* The user puts the cursor on a line of the document.
MoveCursor(line) ==
    /\ line # activeLine
    /\ activeLine' = line
    /\ navigated' = NoNavigation
    /\ UNCHANGED <<editorBlame, currentSettings, documentLineCount, staticDecorations,
                   dynamicDecorations, highlightedLines, lastApply>>
    /\ UNCHANGED <<cacheVars, cacheHistory, extVars, parseVars, utilVars>>

NextNavigate ==
    \/ NextHighlight
    \/ PreviousHighlight
    \/ \E line \in 0..(documentLineCount - 1) : MoveCursor(line)

SpecNavigate == InitNavigate /\ [][NextNavigate]_vars

----------------------------------------------------------------------------
(* Claims about the line filters and the highlight modes *)

Range(seq) == { seq[k] : k \in 1..Len(seq) }

IsStrictlyAscending(seq) == \A k \in 1..(Len(seq) - 1) : seq[k] < seq[k + 1]

\* The record of line n in the blame result of the editor.
InfoAt(n) == MapGet(editorBlame.lines, n).value

BlamedLines == MapKeys(editorBlame.lines)

CommittedLines == { n \in BlamedLines : ~InfoAt(n).isUncommitted }

UncommittedLines == { n \in BlamedLines : InfoAt(n).isUncommitted }

\* The least whole number of seconds that is not before ms milliseconds.
SecondsNotBefore(ms) == (ms + 999) \div 1000

\* C14: for every cutoff, filterLinesByTime returns, in strictly ascending
\* order, exactly the lines that are not uncommitted and whose authorTime in
\* seconds is at least cutoffMs / 1000; getUncommittedLines returns exactly
\* the uncommitted lines in strictly ascending order; the two are disjoint,
\* whatever the timestamps of the uncommitted lines.
C14_FilterByTimeExcludesUncommitted ==
    \A cutoff \in Cutoffs :
        LET recentLines == filterLinesByTime(editorBlame, cutoff)
            uncommittedLines == getUncommittedLines(editorBlame)
        IN  /\ IsStrictlyAscending(recentLines)
            /\ Range(recentLines) =
                 { n \in CommittedLines : InfoAt(n).authorTime >= SecondsNotBefore(cutoff) }
            /\ IsStrictlyAscending(uncommittedLines)
            /\ Range(uncommittedLines) = UncommittedLines
            /\ Range(recentLines) \cap Range(uncommittedLines) = {}

\* The age mode has run on a blame whose lines were inserted in descending
\* order: a committed line passes the cutoff, a committed line does not, and
\* an uncommitted line has a timestamp after the cutoff.
C14_Witness ==
    /\ lastApply.op = "age"
    /\ Len(editorBlame.lines) >= 2
    /\ editorBlame.lines[1].key > editorBlame.lines[2].key
    /\ Range(filterLinesByTime(editorBlame, lastApply.cutoff)) # {}
    /\ \E n \in CommittedLines : InfoAt(n).authorTime * 1000 < lastApply.cutoff
    /\ \E n \in UncommittedLines : InfoAt(n).authorTime * 1000 >= lastApply.cutoff
    /\ staticDecorations.age # <<>>

\* The lines of the document: only these can carry a decoration.
DocumentLines == 1..documentLineCount

\* The dynamic decorations that paint line n.
PaintedBy(n) == { k \in 1..Len(dynamicDecorations) : n \in Range(dynamicDecorations[k].lines) }

\* The color of the group with identifier id under the current settings.
ColorOf(id) ==
    generateColor(id, currentSettings.colorSaturation, currentSettings.colorLightness,
                  currentSettings.colorOpacity)

\* After a grouping mode that keys its groups by the field by under keyPrefix:
\* each committed line of the document is painted by exactly one dynamic
\* decoration, the one of its own identifier, in the color generated from
\* that identifier; that decoration paints no line of another identifier
\* and no line twice; an uncommitted line is painted by none.
GroupsPartitionCommitted(by, keyPrefix) ==
    /\ \A n \in CommittedLines \cap DocumentLines :
          /\ Cardinality(PaintedBy(n)) = 1
          /\ \A k \in PaintedBy(n) :
                /\ dynamicDecorations[k].key = keyPrefix \o InfoAt(n)[by]
                /\ dynamicDecorations[k].color = ColorOf(InfoAt(n)[by])
    /\ \A n \in UncommittedLines : PaintedBy(n) = {}
    /\ \A k \in 1..Len(dynamicDecorations) :
          /\ Range(dynamicDecorations[k].lines) \subseteq CommittedLines \cap DocumentLines
          /\ Cardinality(Range(dynamicDecorations[k].lines)) = Len(dynamicDecorations[k].lines)
          /\ \A j \in 1..Len(dynamicDecorations) :
                dynamicDecorations[j].key = dynamicDecorations[k].key => j = k

\* The same of the groups themselves, which also hold the lines the
\* document no longer has.
GroupsOfCommitted(by) ==
    LET groups == GroupLines(SelectSeq(editorBlame.lines, LAMBDA e : ~e.value.isUncommitted), by)
    IN  /\ \A n \in CommittedLines :
              \A g \in 1..Len(groups) : n \in Range(groups[g].lines) <=> groups[g].key = InfoAt(n)[by]
        /\ \A n \in UncommittedLines : \A g \in 1..Len(groups) : n \notin Range(groups[g].lines)
        /\ \A g, h \in 1..Len(groups) : groups[g].key = groups[h].key => g = h

\* C15: in author mode (commit mode) every committed line belongs to exactly
\* one group, the group of its own author name (commit id); no uncommitted
\* line belongs to a group; all lines of a group get the one color
\* generateColor(group key, saturation, lightness, opacity).
C15_GroupsPartitionCommittedLines ==
    /\ lastApply.op = "author" =>
          GroupsPartitionCommitted("author", AuthorKeyPrefix) /\ GroupsOfCommitted("author")
    /\ lastApply.op = "commit" =>
          GroupsPartitionCommitted("commitSha", CommitKeyPrefix) /\ GroupsOfCommitted("commitSha")

\* Author mode has painted two groups in two colors, on a blame that has an
\* uncommitted line as well.
C15_Witness ==
    /\ lastApply.op = "author"
    /\ \E j, k \in 1..Len(dynamicDecorations) :
          /\ dynamicDecorations[j].lines # <<>>
          /\ dynamicDecorations[k].lines # <<>>
          /\ dynamicDecorations[j].color # dynamicDecorations[k].color
    /\ UncommittedLines # {}

\* Two names are the same name when letter case is ignored.
SameIgnoringCase(a, b) ==
    /\ Len(a) = Len(b)
    /\ \A k \in 1..Len(a) : ToLowerCase(a[k]) = ToLowerCase(b[k])

\* A commit id begins with the characters of the target, in their order.
BeginsWith(sha, target) ==
    /\ Len(target) <= Len(sha)
    /\ \A k \in 1..Len(target) : sha[k] = target[k]

\* The lines the selected decoration is on.
SelectedLines == Range(staticDecorations.selected)

\* C16: after specificAuthor mode the highlighted lines are exactly the
\* lines, committed or not, whose author is the target when letter case is
\* ignored (a longer name that contains the target does not match); after
\* specificCommit mode exactly the lines whose commit id starts with the
\* target, which for a full id are the lines of that commit only and for an
\* abbreviated id the lines of every commit that shares the prefix. The
\* selected decoration is on those of them the document has.
C16_SpecificTargetMatching ==
    /\ lastApply.op = "specificAuthor" =>
          /\ Range(highlightedLines) =
               { n \in BlamedLines : SameIgnoringCase(InfoAt(n).author, lastApply.target) }
          /\ SelectedLines = Range(highlightedLines) \cap DocumentLines
    /\ lastApply.op = "specificCommit" =>
          /\ Range(highlightedLines) =
               { n \in BlamedLines : BeginsWith(InfoAt(n).commitSha, lastApply.target) }
          /\ Len(lastApply.target) = ShaLength =>
               Range(highlightedLines) =
                 { n \in BlamedLines : InfoAt(n).commitSha = lastApply.target }
          /\ SelectedLines = Range(highlightedLines) \cap DocumentLines

\* specificAuthor mode has run with a target that two authors match when
\* case is ignored, on a blame with a line of each and a line of an author
\* whose name contains the target: the first two are highlighted only.
C16_Witness ==
    /\ lastApply.op = "specificAuthor"
    /\ \E n1, n2, n3 \in BlamedLines :
          /\ InfoAt(n1).author = <<"X">>
          /\ InfoAt(n2).author = <<"x">>
          /\ InfoAt(n3).author = <<"X", "y">>
          /\ Range(highlightedLines) = {n1, n2}

\* Every line some decoration of the editor is on.
PaintedLines ==
    UNION ({ Range(staticDecorations.age), Range(staticDecorations.uncommitted),
             Range(staticDecorations.selected), Range(staticDecorations.review) }
           \cup { Range(dynamicDecorations[k].lines) : k \in 1..Len(dynamicDecorations) })

\* C17: after a refresh in a parameterized mode whose target is not set, no
\* line is highlighted and the navigation sequence is empty: nothing that a
\* mode active before has left remains.
C17_UnsetTargetGivesEmptyResult ==
    (lastApply.op \in ParameterizedModes /\ lastApply.target = NoTarget) =>
        /\ highlightedLines = <<>>
        /\ PaintedLines = {}

\* The lines of the groups the last highlight operation shows: the recent
\* lines (age), the committed lines (author, commit), the lines of the
\* buckets (heatmap), the lines that match the target (the two single modes).
HeatmapConfig ==
    [coldHue |-> ColdHue, hotHue |-> HotHue, saturation |-> currentSettings.colorSaturation,
     lightness |-> currentSettings.colorLightness, opacity |-> currentSettings.colorOpacity]

BucketLines ==
    LET heatmapGroups == groupHeatmapByColor(calculateHeatmap(editorBlame, HeatmapConfig),
                                             Buckets, HeatmapConfig)
    IN  UNION { Range(heatmapGroups[g].value.lines) : g \in 1..Len(heatmapGroups) }

GroupedLines ==
    CASE lastApply.op = "age" ->
            { n \in CommittedLines : InfoAt(n).authorTime >= SecondsNotBefore(lastApply.cutoff) }
      [] lastApply.op \in {"author", "commit"} -> CommittedLines
      [] lastApply.op = "heatmap" -> BucketLines
      [] lastApply.op = "specificAuthor" ->
            { n \in BlamedLines : SameIgnoringCase(InfoAt(n).author, lastApply.target) }
      [] lastApply.op = "specificCommit" ->
            { n \in BlamedLines : BeginsWith(InfoAt(n).commitSha, lastApply.target) }
      [] OTHER -> {}

\* The modes that show the uncommitted lines as a category of their own.
ShowsUncommitted == lastApply.op \in {"age", "author", "commit", "heatmap"}

\* C18: after any highlight operation the navigation sequence is strictly
\* ascending, so without duplicates, whatever the order of the blame and of
\* the groups; it holds the lines of the groups of the mode, and in the age,
\* author, commit and heatmap modes the uncommitted lines as well exactly
\* when uncommitted highlighting is enabled; the lines painted in the
\* document are those of the sequence the document has.
C18_NavigationSequenceIsSortedUnion ==
    lastApply.op # "none" =>
        /\ IsStrictlyAscending(highlightedLines)
        /\ Range(highlightedLines) =
             GroupedLines \cup
               (IF ShowsUncommitted /\ currentSettings.enableUncommittedHighlight
                THEN UncommittedLines ELSE {})
        /\ ShowsUncommitted =>
             \A n \in UncommittedLines :
                 n \in Range(highlightedLines) <=> currentSettings.enableUncommittedHighlight
        /\ PaintedLines = Range(highlightedLines) \cap DocumentLines

\* Heatmap mode has run with uncommitted highlighting enabled on a blame
\* inserted in descending order: two buckets and an uncommitted line make a
\* sequence of three lines.
C18_Witness ==
    /\ lastApply.op = "heatmap"
    /\ currentSettings.enableUncommittedHighlight
    /\ Len(editorBlame.lines) = 3
    /\ editorBlame.lines[1].key > editorBlame.lines[2].key
    /\ Len(dynamicDecorations) >= 2
    /\ UncommittedLines # {}
    /\ Len(highlightedLines) = 3

----------------------------------------------------------------------------
(* Claims about navigation *)

\* The line the last navigation started from, counted from 1.
NavigatedFrom == navigated.from + 1

LinesAfter == { h \in Range(highlightedLines) : h > NavigatedFrom }

LinesBefore == { h \in Range(highlightedLines) : h < NavigatedFrom }

\* C19: goToNextHighlight from line c returns the smallest highlighted line
\* greater than c, or the first highlighted line when none is greater;
\* goToPreviousHighlight the largest highlighted line less than c, or the
\* last one when none is less; both return nothing when no line is
\* highlighted; a returned line is highlighted and is where the cursor is
\* afterwards.
C19_NavigationWrapsAround ==
    /\ navigated.op = "next" =>
          IF highlightedLines = <<>> THEN ~navigated.defined /\ activeLine = navigated.from
          ELSE /\ navigated.defined
               /\ navigated.line = IF LinesAfter # {} THEN MinOf(LinesAfter)
                                   ELSE highlightedLines[1]
    /\ navigated.op = "previous" =>
          IF highlightedLines = <<>> THEN ~navigated.defined /\ activeLine = navigated.from
          ELSE /\ navigated.defined
               /\ navigated.line = IF LinesBefore # {} THEN MaxOf(LinesBefore)
                                   ELSE highlightedLines[Len(highlightedLines)]
    /\ navigated.defined =>
          /\ navigated.line \in Range(highlightedLines)
          /\ activeLine + 1 = navigated.line

\* goToNextHighlight has run with the cursor on the last of several
\* highlighted lines, and has wrapped to the first.
C19_Witness ==
    /\ navigated.op = "next"
    /\ Len(highlightedLines) >= 3
    /\ NavigatedFrom = highlightedLines[Len(highlightedLines)]
    /\ navigated.line = highlightedLines[1]
    /\ activeLine + 1 = highlightedLines[1]

----------------------------------------------------------------------------
(* Claims about the heatmap *)

\* C20: calculateHeatmap returns exactly one datum for each line that is not
\* uncommitted and none for an uncommitted line, in ascending order of line
\* number; the list is empty when the blame result has no committed line.
C20_OneDatumPerCommittedLine ==
    LET data == calculateHeatmap(editorBlame, HeatmapConfig)
        numbers == [k \in 1..Len(data) |-> data[k].lineNumber]
    IN  /\ Range(numbers) = CommittedLines
        /\ IsStrictlyAscending(numbers)
        /\ CommittedLines = {} => data = <<>>

\* The timestamps of the committed lines of the blame.
CommittedTimes == { InfoAt(n).authorTime : n \in CommittedLines }

\* C21: every datum of calculateHeatmap has ageRatio = (timestamp - minTime)
\* / (maxTime - minTime), between 0 and 1, with minTime and maxTime the
\* smallest and the largest timestamp of the committed lines: 0 for a line
\* of the oldest timestamp, 1 for one of the newest, and 0 for every line
\* when the committed lines share one timestamp.
C21_AgeRatioWithinUnitInterval ==
    LET data == calculateHeatmap(editorBlame, HeatmapConfig)
    IN  \A k \in 1..Len(data) :
            LET minTime == MinOf(CommittedTimes)
                maxTime == MaxOf(CommittedTimes)
                ageRatio == data[k].ageRatio
            IN  /\ ageRatio.den > 0
                /\ 0 <= ageRatio.num /\ ageRatio.num <= ageRatio.den
                /\ IF maxTime = minTime THEN ageRatio.num = 0
                   ELSE ageRatio.num * (maxTime - minTime)
                            = (data[k].timestamp - minTime) * ageRatio.den
                /\ (maxTime > minTime /\ data[k].timestamp = minTime) => ageRatio.num = 0
                /\ (maxTime > minTime /\ data[k].timestamp = maxTime) => ageRatio.num = ageRatio.den

----------------------------------------------------------------------------
(* groupHeatmapByColor on its own (src/src/highlight/heatmap.ts, 168 to 191) *)

DEFAULT_HEATMAP_CONFIG ==
    [coldHue |-> ColdHue, hotHue |-> HotHue, saturation |-> 55, lightness |-> 45,
     opacity |-> "0.30"]

MaxBuckets == 2

\* The numbers of buckets: the one applyHeatmapHighlighting passes, and small ones.
BucketCounts == 1..MaxBuckets \cup { Buckets }

\* Timestamps of commits, in seconds: the epoch and three later moments.
HeatmapTimes == { 0, 5, 8, 9 }

\* The lines of the blamed file: of a commit at one of the timestamps, or
\* of the working tree.
HeatmapEntries ==
    { [key |-> n, value |-> LineInfo(n, [commitSha |-> ShaA, author |-> <<"X">>, authorTime |-> t])] :
        n \in 1..MaxBlameLines, t \in HeatmapTimes }
    \cup { [key |-> n, value |-> LineInfo(n, [commitSha |-> UNCOMMITTED_SHA_PREFIX,
                                              author |-> NotCommittedYet, authorTime |-> 7])] :
             n \in 1..MaxBlameLines }

HeatmapBlames ==
    UNION { { [success |-> TRUE, lines |-> m, lineCount |-> k] :
                m \in { f \in [1..k -> HeatmapEntries] :
                          \A j \in 1..(k - 1) : f[j].key < f[j + 1].key } } :
            k \in 0..MaxBlameLines }

\* What calculateHeatmap hands to groupHeatmapByColor.
HeatmapInputs == { calculateHeatmap(b, DEFAULT_HEATMAP_CONFIG) : b \in HeatmapBlames }

InitHeatmap ==
    /\ heatmapInput \in HeatmapInputs
    /\ bucketCount \in BucketCounts
    /\ groupsReturned = NoGroups
    /\ cache = <<>>
    /\ hits = 0
    /\ misses = 0
    /\ maxEntries = DefaultMaxEntries
    /\ now = 0
    /\ last = NoCall
    /\ setOrder = <<>>
    /\ firstSets = [onlySets |-> TRUE, files |-> <<>>]
    /\ deleted = {}
    /\ getLog = [gets |-> 0, found |-> 0]
    /\ ExtIdle
    /\ head = "r1"
    /\ ParseIdle
    /\ DecoratorIdle
    /\ DebounceIdle
    /\ DurationIdle
    /\ AsyncIdle
    /\ SessionIdle

GroupHeatmapByColor ==
    /\ ~groupsReturned.returned
    /\ groupsReturned' =
          [returned |-> TRUE,
           groups |-> groupHeatmapByColor(heatmapInput, bucketCount, DEFAULT_HEATMAP_CONFIG)]
    /\ UNCHANGED <<heatmapInput, bucketCount>>
    /\ UNCHANGED notHeatmapVars

NextHeatmap ==
    \/ GroupHeatmapByColor

SpecHeatmap == InitHeatmap /\ [][NextHeatmap]_vars

----------------------------------------------------------------------------
(* Claims about groupHeatmapByColor *)

\* The buckets that hold line n.
BucketsOf(n) ==
    { g \in 1..Len(groupsReturned.groups) : n \in Range(groupsReturned.groups[g].value.lines) }

\* q is floor(ageRatio * bucketCount) clamped to bucketCount - 1.
IsClampedFloor(q, ageRatio) ==
    IF ageRatio.num * bucketCount >= (bucketCount - 1) * ageRatio.den
    THEN q = bucketCount - 1
    ELSE /\ q * ageRatio.den <= ageRatio.num * bucketCount
         /\ ageRatio.num * bucketCount < (q + 1) * ageRatio.den

\* C22: groupHeatmapByColor places every input line in exactly one bucket,
\* whose index is floor(ageRatio * bucketCount) clamped to bucketCount - 1,
\* so never bucketCount or more; a bucket has the one color computed at its
\* midpoint ratio (index + 0.5) / bucketCount; and there are at most
\* bucketCount distinct buckets.
C22_BucketsPartitionInput ==
    groupsReturned.returned =>
        LET groups == groupsReturned.groups
        IN  /\ \A k \in 1..Len(heatmapInput) :
                  /\ Cardinality(BucketsOf(heatmapInput[k].lineNumber)) = 1
                  /\ \A g \in BucketsOf(heatmapInput[k].lineNumber) :
                        IsClampedFloor(groups[g].key, heatmapInput[k].ageRatio)
            /\ \A g \in 1..Len(groups) :
                  /\ groups[g].key < bucketCount
                  /\ Cardinality(Range(groups[g].value.lines)) = Len(groups[g].value.lines)
                  /\ Range(groups[g].value.lines) \subseteq
                        { heatmapInput[k].lineNumber : k \in 1..Len(heatmapInput) }
                  /\ groups[g].value.color =
                        getHeatmapColor(Ratio(2 * groups[g].key + 1, 2 * bucketCount),
                                        DEFAULT_HEATMAP_CONFIG)
                  /\ \A h \in 1..Len(groups) : groups[h].key = groups[g].key => h = g
            /\ Len(groups) <= bucketCount

----------------------------------------------------------------------------
(* debounce (src/src/utils/debounce.ts, lines 16 to 44) *)

\* The state of one debounced function and of the timers of the runtime.
Debounced(id, pending) == [timeoutId |-> id, timers |-> pending]

\* setTimeout(callback, delay) called at time t: the timer gets the id
\* newId; its callback runs func with args.
setTimeout(pending, newId, t, delay, args) ==
    pending \cup { [id |-> newId, due |-> t + delay, args |-> args] }

clearTimeout(pending, id) == { t \in pending : t.id # id }

\* Mutant: a pending timer is left to fire.
debouncedFn_NoClear(self, newId, t, delay, args) ==
    Debounced(newId, setTimeout(self.timers, newId, t, delay, args))

\* debouncedFn(...args), called at time t.
debouncedFn(self, newId, t, delay, args) ==
    LET cleared == IF self.timeoutId # NoTimeout
                   THEN clearTimeout(self.timers, self.timeoutId)
                   ELSE self.timers
    IN  Debounced(newId, setTimeout(cleared, newId, t, delay, args))

\* debouncedFn.cancel()
cancel(self) ==
    IF self.timeoutId # NoTimeout
    THEN Debounced(NoTimeout, clearTimeout(self.timers, self.timeoutId))
    ELSE self

\* The callback of a timer: timeoutId = undefined, then func(...args).
timerCallback(self, timerOf) == Debounced(NoTimeout, self.timers \ { timerOf })

MaxTime == 4
MaxEvents == 4

\* The delays a function is debounced with.
Waits == { 1, 2 }

\* The arguments of the calls.
Arguments == { "a", "b" }

Event(op, args) == [op |-> op, at |-> clock, args |-> args]

\* The ids setTimeout has given out so far are 1 .. the number of calls.
CallsSoFar == Len(SelectSeq(eventLog, LAMBDA e : e.op = "call"))

InitDebounce ==
    /\ wait \in Waits
    /\ timeoutId = NoTimeout
    /\ timers = {}
    /\ clock = 0
    /\ eventLog = <<>>
    /\ cache = <<>>
    /\ hits = 0
    /\ misses = 0
    /\ maxEntries = DefaultMaxEntries
    /\ now = 0
    /\ last = NoCall
    /\ setOrder = <<>>
    /\ firstSets = [onlySets |-> TRUE, files |-> <<>>]
    /\ deleted = {}
    /\ getLog = [gets |-> 0, found |-> 0]
    /\ ExtIdle
    /\ head = "r1"
    /\ ParseIdle
    /\ DecoratorIdle
    /\ HeatmapIdle
    /\ DurationIdle
    /\ AsyncIdle
    /\ SessionIdle

\* A call of the debounced function; the time left lets its timer expire.
DebouncedCall(args) ==
    /\ Len(eventLog) < MaxEvents
    /\ clock + wait <= MaxTime
    /\ LET self == debouncedFn(Debounced(timeoutId, timers), CallsSoFar + 1, clock, wait, args)
       IN  /\ timeoutId' = self.timeoutId
           /\ timers' = self.timers
    /\ eventLog' = Append(eventLog, Event("call", args))
    /\ UNCHANGED <<wait, clock>>
    /\ UNCHANGED notDebounceVars

DebouncedCancel ==
    /\ Len(eventLog) < MaxEvents
    /\ LET self == cancel(Debounced(timeoutId, timers))
       IN  /\ timeoutId' = self.timeoutId
           /\ timers' = self.timers
    /\ eventLog' = Append(eventLog, Event("cancel", ""))
    /\ UNCHANGED <<wait, clock>>
    /\ UNCHANGED notDebounceVars

\* The runtime runs the callback of a timer, at its time or later.
TimerFires(timerOf) ==
    /\ timerOf \in timers
    /\ clock >= timerOf.due
    /\ LET self == timerCallback(Debounced(timeoutId, timers), timerOf)
       IN  /\ timeoutId' = self.timeoutId
           /\ timers' = self.timers
    /\ eventLog' = Append(eventLog, Event("run", timerOf.args))
    /\ UNCHANGED <<wait, clock>>
    /\ UNCHANGED notDebounceVars

TimePasses ==
    /\ clock < MaxTime
    /\ clock' = clock + 1
    /\ UNCHANGED <<wait, timeoutId, timers, eventLog>>
    /\ UNCHANGED notDebounceVars

SomeTimerFires == \E timerOf \in timers : TimerFires(timerOf)

NextDebounce ==
    \/ \E args \in Arguments : DebouncedCall(args)
    \/ DebouncedCancel
    \/ SomeTimerFires
    \/ TimePasses

\* The runtime runs the callback of an expired timer, and time passes.
SpecDebounce ==
    InitDebounce /\ [][NextDebounce]_vars /\ WF_vars(SomeTimerFires) /\ WF_vars(TimePasses)

----------------------------------------------------------------------------
(* Claims about debounce *)

\* Every run of func follows, with nothing in between, a call made at
\* least wait earlier, and has the arguments of that call.
RunsFollowQuietCall ==
    \A k \in 1..Len(eventLog) :
        eventLog[k].op = "run" =>
            /\ k > 1
            /\ eventLog[k - 1].op = "call"
            /\ eventLog[k].args = eventLog[k - 1].args
            /\ eventLog[k].at - eventLog[k - 1].at >= wait

\* No run of func falls inside a burst: between two calls in succession
\* that are less than wait apart.
NoRunInsideBurst ==
    \A i, j \in 1..Len(eventLog) :
        (/\ i < j
         /\ eventLog[i].op = "call" /\ eventLog[j].op = "call"
         /\ \A k \in (i + 1)..(j - 1) : eventLog[k].op # "call"
         /\ eventLog[j].at - eventLog[i].at < wait)
        => \A k \in (i + 1)..(j - 1) : eventLog[k].op # "run"

\* The one pending timer is the one of timeoutId, set by the last call.
AtMostOneTimer ==
    /\ Cardinality(timers) <= 1
    /\ timers = {} <=> timeoutId = NoTimeout
    /\ \A t \in timers : t.id = timeoutId /\ t.id = CallsSoFar
    /\ (eventLog # <<>> /\ eventLog[Len(eventLog)].op # "call") => timers = {}

DebounceSafety == RunsFollowQuietCall /\ NoRunInsideBurst /\ AtMostOneTimer

\* A call whose outcome is open: func has not run since and no cancel was made.
CallPending == eventLog # <<>> /\ eventLog[Len(eventLog)].op = "call"

\* C23: func runs only when wait has elapsed since the most recent call
\* with no call or cancel in between, and with the arguments of that call;
\* no run falls inside a burst of calls less than wait apart, and the last
\* call of the burst is followed by one run unless a cancel is made; at
\* most one timer is pending at any time; after cancel no timer is pending.
C23_DebounceRunsOncePerBurst ==
    /\ []DebounceSafety
    /\ CallPending ~> ~CallPending

\* Two calls less than wait apart, then one run, with the arguments of the
\* second call, wait after it.
C23_Witness ==
    /\ Len(eventLog) = 3
    /\ eventLog[1].op = "call" /\ eventLog[2].op = "call" /\ eventLog[3].op = "run"
    /\ eventLog[1].args # eventLog[2].args
    /\ eventLog[2].at > eventLog[1].at
    /\ eventLog[2].at - eventLog[1].at < wait
    /\ eventLog[3].args = eventLog[2].args
    /\ eventLog[3].at = eventLog[2].at + wait

----------------------------------------------------------------------------
(* parseDuration (src/unnamed/part_005, lines 25 to 125) *)

\* a > b, of two numbers of milliseconds.
After(a, b) == a.s > b.s \/ (a.s = b.s /\ a.ms > b.ms)

\* duration.trim()
Trim(str) ==
    LET first == RunEnd(str, 1, Whitespace)
        ends == { q \in 1..Len(str) : str[q] \notin Whitespace }
    IN  IF ends = {} THEN <<>> ELSE SubSeq(str, first, MaxOf(ends))

UnitLetters == { "d", "w", "m", "y" }

\* Mutant: a month of 31 days.
DURATION_UNITS_LongMonth ==
    [u \in UnitLetters |->
        CASE u = "d" -> 24 * 60 * 60
          [] u = "w" -> 7 * 24 * 60 * 60
          [] u = "m" -> 31 * 24 * 60 * 60
          [] u = "y" -> 365 * 24 * 60 * 60]

\* The multipliers, in seconds: each is a whole number of seconds.
DURATION_UNITS ==
    [u \in UnitLetters |->
        CASE u = "d" -> 24 * 60 * 60
          [] u = "w" -> 7 * 24 * 60 * 60
          [] u = "m" -> 30 * 24 * 60 * 60
          [] u = "y" -> 365 * 24 * 60 * 60]

\* trimmed.match(/^(\d+)([dwmy])$/)
relativeMatch(trimmed) ==
    /\ Len(trimmed) >= 2
    /\ trimmed[Len(trimmed)] \in UnitLetters
    /\ \A k \in 1..(Len(trimmed) - 1) : trimmed[k] \in Digits

\* trimmed.match(/^\d{4}-\d{2}-\d{2}/)
dateMatch(trimmed) ==
    /\ Len(trimmed) >= 10
    /\ \A k \in {1, 2, 3, 4, 6, 7, 9, 10} : trimmed[k] \in Digits
    /\ trimmed[5] = "-" /\ trimmed[8] = "-"

\* trimmed.match(/^\d{10,13}$/)
timestampMatch(trimmed) ==
    /\ Len(trimmed) >= 10 /\ Len(trimmed) <= 13
    /\ \A k \in 1..Len(trimmed) : trimmed[k] \in Digits

DurationFailure == [returned |-> TRUE, success |-> FALSE]

DurationSuccess(cutoffTimestamp) ==
    [returned |-> TRUE, success |-> TRUE, cutoffTimestamp |-> cutoffTimestamp]

\* parseInt(trimmed, 10) of a timestamp, multiplied by 1000 when it has ten
\* digits: otherwise its last three digits are the milliseconds.
timestampOf(trimmed) ==
    IF Len(trimmed) = 10 THEN Millis(parseInt(trimmed), 0)
    ELSE Millis(parseInt(SubSeq(trimmed, 1, Len(trimmed) - 3)),
                parseInt(SubSeq(trimmed, Len(trimmed) - 2, Len(trimmed))))

\* parseDuration(duration, now); date is what new Date(trimmed).getTime()
\* gives. (The description and the error text of the result are left out.)
parseDuration(duration, nowOf, date) ==
    LET trimmed == LowerCase(Trim(duration))
        amount == parseInt(SubSeq(trimmed, 1, Len(trimmed) - 1))
        multiplier == DURATION_UNITS[trimmed[Len(trimmed)]]
    IN  IF trimmed = <<>> THEN DurationFailure
        ELSE IF relativeMatch(trimmed)
        THEN IF amount <= 0 THEN DurationFailure
             ELSE DurationSuccess(Millis(nowOf.s - (amount * multiplier), nowOf.ms))
        ELSE IF dateMatch(trimmed) /\ date.valid
        THEN IF After(date.time, nowOf) THEN DurationFailure
             ELSE DurationSuccess(date.time)
        ELSE IF timestampMatch(trimmed)
        THEN IF After(timestampOf(trimmed), nowOf) THEN DurationFailure
             ELSE DurationSuccess(timestampOf(trimmed))
        ELSE DurationFailure

\* White space around a duration.
Paddings == { <<>>, <<" ">>, <<"\t", " ">> }

AmountTexts == { <<>>, <<"0">>, <<"1">>, <<"7">>, <<"0", "0">>, <<"0", "3">>, <<"1", "2">> }

UnitTexts == { <<>>, <<"d">>, <<"w">>, <<"m">>, <<"y">>, <<"D">>, <<"W">>, <<"M">>, <<"Y">>,
               <<"h">>, <<"x">>, <<" ", "d">>, <<"d", "d">> }

Zeros(n) == [k \in 1..n |-> "0"]

\* ISO dates, well formed or not, and Unix timestamps of 9 to 14 digits.
AbsoluteTexts ==
    { <<"2", "0", "2", "4", "-", "0", "1", "-", "1", "5">>,
      <<"2", "0", "2", "4", "-", "0", "1", "-", "1", "5", "T", "1", "0", "Z">>,
      <<"2", "0", "2", "4", "-", "1", "-", "1", "5">>,
      Zeros(8) \o <<"5">>,
      Zeros(9) \o <<"5">>,
      Zeros(9) \o <<"6">>,
      Zeros(7) \o <<"5", "0", "0", "0">>,
      Zeros(9) \o <<"5", "0", "0", "0">>,
      Zeros(9) \o <<"5", "0", "0", "1">>,
      Zeros(10) \o <<"5", "0", "0", "0">> }

DurationTexts ==
    { lead \o text \o trail :
        lead \in Paddings, trail \in Paddings,
        text \in { amount \o unit : amount \in AmountTexts, unit \in UnitTexts }
                 \cup AbsoluteTexts }

\* Current times: five seconds after the epoch, a millisecond earlier, a
\* millisecond later, and a day of the year 2024.
NowTimes == { Millis(5, 0), Millis(4, 999), Millis(5, 1), Millis(1705312800, 0) }

\* What the runtime makes of a date string: not a date, or a moment.
DateTimes ==
    { InvalidDate } \cup
    { [valid |-> TRUE, time |-> t] :
        t \in { Millis(4, 999), Millis(5, 0), Millis(5, 1), Millis(1705276800, 0) } }

InitDuration ==
    /\ durationText \in DurationTexts
    /\ nowMs \in NowTimes
    /\ dateTime \in DateTimes
    /\ parsedDuration = NotParsed
    /\ cache = <<>>
    /\ hits = 0
    /\ misses = 0
    /\ maxEntries = DefaultMaxEntries
    /\ now = 0
    /\ last = NoCall
    /\ setOrder = <<>>
    /\ firstSets = [onlySets |-> TRUE, files |-> <<>>]
    /\ deleted = {}
    /\ getLog = [gets |-> 0, found |-> 0]
    /\ ExtIdle
    /\ head = "r1"
    /\ ParseIdle
    /\ DecoratorIdle
    /\ HeatmapIdle
    /\ DebounceIdle
    /\ AsyncIdle
    /\ SessionIdle

ParseDuration ==
    /\ ~parsedDuration.returned
    /\ parsedDuration' = parseDuration(durationText, nowMs, dateTime)
    /\ UNCHANGED <<durationText, nowMs, dateTime>>
    /\ UNCHANGED notDurationVars

NextDuration ==
    \/ ParseDuration

SpecDuration == InitDuration /\ [][NextDuration]_vars

----------------------------------------------------------------------------
(* Claims about parseDuration *)

\* text is white space, the digits from a to b - 1, one character at b that
\* is neither a digit nor white space, and white space.
IsAmountAndUnit(text, a, b) ==
    /\ a < b
    /\ \A k \in 1..(a - 1) : text[k] \in Whitespace
    /\ \A k \in a..(b - 1) : text[k] \in Digits
    /\ text[b] \notin Digits \cup Whitespace
    /\ \A k \in (b + 1)..Len(text) : text[k] \in Whitespace

\* The days of a unit letter, in either case; 0 for any other character.
DaysOfUnit(u) ==
    CASE u \in {"d", "D"} -> 1
      [] u \in {"w", "W"} -> 7
      [] u \in {"m", "M"} -> 30
      [] u \in {"y", "Y"} -> 365
      [] OTHER -> 0

\* C25: for a text '<n><unit>' with white space around it, parseDuration
\* succeeds with cutoffTimestamp = now - n * (the unit in milliseconds) when
\* n >= 1 and the unit is d (1 day), w (7 days), m (30 days) or y (365 days)
\* in either case, and fails when n = 0 or the unit is another character;
\* and no successful result, of a relative duration, a date or a Unix
\* timestamp, has cutoffTimestamp > now.
C25_RelativeDurationCutoff ==
    parsedDuration.returned =>
        /\ \A a, b \in 1..Len(durationText) :
              IsAmountAndUnit(durationText, a, b) =>
                  LET n == DecimalValue(SubSeq(durationText, a, b - 1))
                      days == DaysOfUnit(durationText[b])
                  IN  IF n >= 1 /\ days > 0
                      THEN /\ parsedDuration.success
                           /\ parsedDuration.cutoffTimestamp =
                                 Millis(nowMs.s - (n * days * 24 * 60 * 60), nowMs.ms)
                      ELSE ~parsedDuration.success
        /\ parsedDuration.success => ~After(parsedDuration.cutoffTimestamp, nowMs)

\* Twelve months in capitals between white space have been parsed, at a
\* moment of the year 2024.
C25_Witness ==
    /\ parsedDuration.returned /\ parsedDuration.success
    /\ durationText = <<" ", "1", "2", "M", "\t", " ">>
    /\ nowMs.s > 12 * 30 * 24 * 60 * 60
    /\ parsedDuration.cutoffTimestamp.s < nowMs.s

----------------------------------------------------------------------------
(* Claims about the size of the cache *)

\* C26: after any sequence of calls on a cache of capacity N >= 1, the
\* number of entries never exceeds N, whatever the file paths used as keys,
\* the empty string included.
C26_SizeNeverExceedsCapacity == Len(cache) <= maxEntries

----------------------------------------------------------------------------
(* Claims about blocks that are not closed *)

\* The lines of the record that the header at line p starts: up to its
\* content line, or to the line before the next header, or to the end.
OwnBlock(p) ==
    LET stops == { t \in (p + 1)..Len(rawLines) :
                     StartsWith(rawLines[t], Tab) \/ IsHeaderLine(rawLines[t]) }
        stop == CHOOSE t \in stops : \A u \in stops : t <= u
    IN  [h |-> p,
         e |-> IF stops = {} THEN Len(rawLines)
               ELSE IF StartsWith(rawLines[stop], Tab) THEN stop ELSE stop - 1]

HeaderPositions == { k \in 1..Len(rawLines) : IsHeaderLine(rawLines[k]) }

\* The last header line that carries final line number n.
LastHeaderFor(n) ==
    MaxOf({ k \in HeaderPositions : NumberOf(headerMatch(rawLines[k]).finalLine) = n })

\* C30: every line that matches the header pattern starts a record of its
\* own: the line numbers of the returned map are exactly the final line
\* numbers of all header lines of the text, and each record holds only what
\* the metadata lines after its own header say, also when no content line
\* closes a block before the next header.
C30_EveryHeaderStartsARecord ==
    parseResult.returned =>
        LET m == parseResult.lines
        IN  /\ MapKeys(m) = HeaderNumbers(Len(rawLines))
            /\ \A k \in 1..Len(m) :
                  m[k].key \in HeaderNumbers(Len(rawLines))
                      => IsRecordOf(m[k].value, OwnBlock(LastHeaderFor(m[k].key)))

----------------------------------------------------------------------------
(* debounceAsync (src/src/utils/debounce.ts, lines 54 to 99) *)

\* The promise debouncedFn returns, and what became of its call (history).
Promise(state, value, args, fate) ==
    [state |-> state, value |-> value, args |-> args, fate |-> fate]

\* resolve(value) of the promise p: a settled promise stays as it is.
resolve(all, p, value, fate) ==
    IF all[p].state = "pending"
    THEN [all EXCEPT ![p] = Promise("fulfilled", value, @.args, fate)]
    ELSE all

\* What func(...args) resolves to.
ResultOf(args) == <<"result", args>>

AsyncDebounced(id, pending, pendingOf, all, calls) ==
    [timeoutId |-> id, timers |-> pending, pendingResolve |-> pendingOf, promises |-> all,
     running |-> calls]

\* debouncedFn(...args) of debounceAsync, called at time t: the promise it
\* returns is the one of index Len(promises) + 1, and so is its timer.
asyncDebouncedFn(self, t, delay, args) ==
    LET p == Len(self.promises) + 1
        cleared == IF self.timeoutId # NoTimeout
                   THEN clearTimeout(self.timers, self.timeoutId)
                   ELSE self.timers
        resolved == IF self.timeoutId # NoTimeout /\ self.pendingResolve # 0
                    THEN resolve(self.promises, self.pendingResolve, Undefined, "superseded")
                    ELSE self.promises
    IN  AsyncDebounced(p, setTimeout(cleared, p, t, delay, args), p,
                       Append(resolved, Promise("pending", Undefined, args, "open")),
                       self.running)

\* debouncedFn.cancel() of debounceAsync
asyncCancel(self) ==
    AsyncDebounced(NoTimeout,
                   IF self.timeoutId # NoTimeout
                   THEN clearTimeout(self.timers, self.timeoutId)
                   ELSE self.timers,
                   0,
                   IF self.pendingResolve # 0
                   THEN resolve(self.promises, self.pendingResolve, Undefined, "cancelled")
                   ELSE self.promises,
                   self.running)

\* The callback of a timer, up to its await: func(...args) is called.
asyncTimerCallback(self, timerOf) ==
    AsyncDebounced(NoTimeout, self.timers \ { timerOf }, 0, self.promises,
                   self.running \cup { [promise |-> timerOf.id, args |-> timerOf.args] })

\* The callback of a timer, from its await: func has resolved and
\* resolve(result) is called, or func has rejected and the catch block
\* throws the error again, which rejects the promise of the callback
\* itself and leaves the promise debouncedFn returned as it is.
asyncFuncSettled(self, call, outcome) ==
    AsyncDebounced(self.timeoutId, self.timers, self.pendingResolve,
                   IF outcome = "resolves"
                   THEN resolve(self.promises, call.promise, ResultOf(call.args), "resolved")
                   ELSE [self.promises EXCEPT ![call.promise].fate = "rejected"],
                   self.running \ { call })

MaxPromises == 3

\* How a call of func ends.
Outcomes == { "resolves", "rejects" }

AsyncSelf == AsyncDebounced(timeoutId, timers, pendingResolve, promises, running)

AsyncBecomes(self) ==
    /\ timeoutId' = self.timeoutId
    /\ timers' = self.timers
    /\ pendingResolve' = self.pendingResolve
    /\ promises' = self.promises
    /\ running' = self.running
    /\ UNCHANGED <<wait, eventLog>>
    /\ UNCHANGED <<cacheVars, cacheHistory, extVars, parseVars, decoratorVars, decoratorHistory,
                   heatmapVars, durationVars, sessionVars, sessionHistory>>

InitAsync ==
    /\ wait \in Waits
    /\ timeoutId = NoTimeout
    /\ timers = {}
    /\ clock = 0
    /\ eventLog = <<>>
    /\ AsyncIdle
    /\ cache = <<>>
    /\ hits = 0
    /\ misses = 0
    /\ maxEntries = DefaultMaxEntries
    /\ now = 0
    /\ last = NoCall
    /\ setOrder = <<>>
    /\ firstSets = [onlySets |-> TRUE, files |-> <<>>]
    /\ deleted = {}
    /\ getLog = [gets |-> 0, found |-> 0]
    /\ ExtIdle
    /\ head = "r1"
    /\ ParseIdle
    /\ DecoratorIdle
    /\ HeatmapIdle
    /\ DurationIdle
    /\ SessionIdle

\* A call of the debounced function; the time left lets its timer expire.
AsyncCall(args) ==
    /\ Len(promises) < MaxPromises
    /\ clock + wait <= MaxTime
    /\ AsyncBecomes(asyncDebouncedFn(AsyncSelf, clock, wait, args))
    /\ UNCHANGED clock

AsyncCancel ==
    /\ AsyncBecomes(asyncCancel(AsyncSelf))
    /\ UNCHANGED clock

\* The runtime runs the callback of a timer, at its time or later.
AsyncTimerFires(timerOf) ==
    /\ timerOf \in timers
    /\ clock >= timerOf.due
    /\ AsyncBecomes(asyncTimerCallback(AsyncSelf, timerOf))
    /\ UNCHANGED clock

\* The promise of a call of func settles, and the callback goes on.
FuncSettles(call, outcome) ==
    /\ call \in running
    /\ AsyncBecomes(asyncFuncSettled(AsyncSelf, call, outcome))
    /\ UNCHANGED clock

AsyncTimePasses ==
    /\ clock < MaxTime
    /\ clock' = clock + 1
    /\ UNCHANGED <<wait, timeoutId, timers, eventLog>>
    /\ UNCHANGED notDebounceVars

SomeAsyncTimerFires == \E timerOf \in timers : AsyncTimerFires(timerOf)

SomeFuncSettles == \E call \in running, outcome \in Outcomes : FuncSettles(call, outcome)

NextAsync ==
    \/ \E args \in Arguments : AsyncCall(args)
    \/ AsyncCancel
    \/ SomeAsyncTimerFires
    \/ SomeFuncSettles
    \/ AsyncTimePasses

\* The runtime runs the callback of an expired timer, time passes, and
\* the promise func returns settles.
SpecAsync ==
    /\ InitAsync
    /\ [][NextAsync]_vars
    /\ WF_vars(SomeAsyncTimerFires)
    /\ WF_vars(AsyncTimePasses)
    /\ WF_vars(SomeFuncSettles)

----------------------------------------------------------------------------
(* Claims about debounceAsync *)

\* A settled promise has the value its call ended with: undefined for a
\* call that was superseded or cancelled, the outcome of func for a call
\* whose timer expired.
SettledAsItsCallEnded ==
    \A p \in 1..Len(promises) :
        /\ promises[p].fate \in { "superseded", "cancelled" } =>
              promises[p].state = "fulfilled" /\ promises[p].value = Undefined
        /\ promises[p].fate = "resolved" =>
              promises[p].state = "fulfilled" /\ promises[p].value = ResultOf(promises[p].args)
        /\ promises[p].fate = "rejected" => promises[p].state = "rejected"
        /\ promises[p].fate = "open" => promises[p].state = "pending"

Settled(p) == Len(promises) >= p /\ promises[p].state # "pending"

\* C29: every promise a function wrapped with debounceAsync returns
\* settles in the end: with undefined when its call is superseded within
\* wait or cancelled, and with the outcome of func, resolved or rejected,
\* for the last call of a burst once wait has elapsed.
C29_EveryPromiseSettles ==
    /\ []SettledAsItsCallEnded
    /\ \A p \in 1..MaxPromises : (Len(promises) >= p) ~> Settled(p)

----------------------------------------------------------------------------
(* The extension's commands, listeners and refreshes over a session
   (src/src/extension.ts) *)

\* HighlightMode
HighlightModes ==
    { "none", "age", "author", "commit", "specificAuthor", "specificCommit", "heatmap",
      "branchDiff" }

\* The state of the extension, of its two decorators and of the editors.
SessionSelf ==
    [mode |-> mode, activeEditor |-> activeEditor, timer |-> timer,
     selectedAuthor |-> selectedAuthor, selectedCommit |-> selectedCommit,
     selectedBranch |-> selectedBranch, parsedDuration |-> parsedDuration,
     enableGutterAnnotations |-> enableGutterAnnotations,
     editorDecorations |-> editorDecorations, highlightedLines |-> highlightedLines,
     activeLine |-> activeLine, refreshing |-> refreshing, command |-> command,
     lastEvent |-> lastEvent, sinceClear |-> sinceClear]

\* A handler has ended, or has reached an await (history): a refresh that
\* ended by clearing its editor, a navigation that moved the cursor, a
\* picker or input box that was dismissed, or another.
Ended(self, event) == [self EXCEPT !.lastEvent = event]

\* JavaScript's test of a string or undefined: if (value)
IsTruthy(value) == value # Undefined /\ value # ""

\* The elements of a set of numbers, ascending.
AscendingSeq(S) ==
    CHOOSE seq \in [1..Cardinality(S) -> S] :
        \A i, j \in 1..Cardinality(S) : i < j => seq[i] < seq[j]

\* LineDecorator.clearAllFromEditor(editor): highlightedLines is left.
lineClearAllFromEditor(self, editor) ==
    [self EXCEPT !.editorDecorations[editor].lines = {}]

\* LineDecorator.clearAllDecorations(): every visible editor, and
\* highlightedLines.
lineClearAllDecorations(self) ==
    [self EXCEPT !.editorDecorations = [e \in DOMAIN @ |-> [@[e] EXCEPT !.lines = {}]],
                 !.highlightedLines = <<>>]

\* LineDecorator.updateSettings: the decoration types are disposed, so no
\* editor shows them any more.
lineUpdateSettings(self) ==
    [self EXCEPT !.editorDecorations = [e \in DOMAIN @ |-> [@[e] EXCEPT !.lines = {}]]]

\* GutterDecorator.clearAll(): the decoration types are disposed.
gutterClearAll(self) ==
    [self EXCEPT !.editorDecorations = [e \in DOMAIN @ |-> [@[e] EXCEPT !.gutter = FALSE]]]

\* One of the apply...Highlighting methods of the line decorator, which
\* highlights the lines shown (a set the blame result and the mode give).
applyLineHighlighting(self, editor, shown) ==
    [self EXCEPT !.editorDecorations[editor].lines = shown,
                 !.highlightedLines = AscendingSeq(shown),
                 !.sinceClear.applied = @ \/ (self.sinceClear.cleared /\ shown # {})]

\* The end of refreshActiveEditor: applyAuthorGutter when the setting is
\* on (the blame result has committed lines), clearFromEditor otherwise.
applyGutter(self, editor) ==
    IF self.enableGutterAnnotations
    THEN [self EXCEPT !.editorDecorations[editor].gutter = TRUE,
                      !.sinceClear.applied = @ \/ self.sinceClear.cleared]
    ELSE [self EXCEPT !.editorDecorations[editor].gutter = FALSE]

\* A call of refreshActiveEditor at an await.
Refresh(editor, at) == [editor |-> editor, pc |-> at]

\* refreshActiveEditor up to its first await. The document "other" is one
\* validateFileForBlame rejects.
sessionRefreshActiveEditor(self) ==
    IF self.mode = "none" \/ self.activeEditor = "other"
    THEN Ended(lineClearAllFromEditor(self, self.activeEditor), "refresh cleared")
    ELSE Ended([self EXCEPT !.refreshing = @ \cup { Refresh(self.activeEditor, "git") }],
               "other")

\* refreshActiveEditor from the awaits of getRepoInfo, getRemoteUrl,
\* isFileTracked and getBlame, which read and write no field in between:
\* git fails (not a repository, untracked, failed blame, failed parse, an
\* exception), or the blame result is there and the switch reads the mode.
refreshAfterGit(self, call, outcome, shown) ==
    LET rest == [self EXCEPT !.refreshing = @ \ { call }]
        editor == call.editor
    IN  IF outcome = "fails"
        THEN Ended(lineClearAllFromEditor(rest, editor), "refresh cleared")
        ELSE IF rest.mode \in { "age", "author", "commit", "heatmap" }
        THEN Ended(applyGutter(applyLineHighlighting(rest, editor, shown), editor), "other")
        ELSE IF rest.mode = "specificAuthor" /\ IsTruthy(rest.selectedAuthor)
        THEN Ended(applyGutter(applyLineHighlighting(rest, editor, shown), editor), "other")
        ELSE IF rest.mode = "specificCommit" /\ IsTruthy(rest.selectedCommit)
        THEN Ended(applyGutter(applyLineHighlighting(rest, editor, shown), editor), "other")
        ELSE IF rest.mode = "branchDiff" /\ IsTruthy(rest.selectedBranch)
        THEN Ended([rest EXCEPT !.refreshing = @ \cup { Refresh(editor, "diff") }],
                   "other")
        ELSE Ended(applyGutter(rest, editor), "other")

\* refreshActiveEditor from the await of getDiffLines, in the case branchDiff.
refreshAfterDiff(self, call, outcome, shown) ==
    LET rest == [self EXCEPT !.refreshing = @ \ { call }]
    IN  IF outcome = "fails"
        THEN Ended(lineClearAllFromEditor(rest, call.editor), "refresh cleared")
        ELSE Ended(applyGutter(applyLineHighlighting(rest, call.editor, shown), call.editor),
                   "other")

\* A highlight command is issued, or sets the mode after its picker
\* (history).
Issued(self) == [self EXCEPT !.sinceClear = [cleared |-> FALSE, applied |-> FALSE]]

\* highlightByAuthor, highlightByCommit
highlightBy(self, newMode) ==
    sessionRefreshActiveEditor([Issued(self) EXCEPT !.mode = newMode])

\* clear
sessionClear(self) ==
    Ended([gutterClearAll(lineClearAllDecorations([self EXCEPT !.mode = "none",
                                                               !.timer = FALSE]))
              EXCEPT !.sinceClear = [cleared |-> TRUE, applied |-> FALSE]],
          "other")

\* highlightHeatmap
highlightHeatmap(self) ==
    IF self.mode = "heatmap" THEN sessionClear(self) ELSE highlightBy(self, "heatmap")

\* A command that shows a picker or an input box, up to that await. (The
\* awaits before it, of the blame result or of the branches, write no
\* field; when they fail the command ends as when the picker is dismissed.)
showPicker(self, picker) ==
    Ended([Issued(self) EXCEPT !.command = [pc |-> picker, value |-> <<>>, valid |-> FALSE]],
          "other")

\* highlightSpecificAuthor from its showQuickPick.
highlightSpecificAuthor(self, selected) ==
    LET closed == [self EXCEPT !.command = NoCommand]
        chosen == Issued(closed)
    IN  IF ~IsTruthy(selected)
        THEN Ended(closed, IF selected = Undefined THEN "dismissed" ELSE "other")
        ELSE sessionRefreshActiveEditor([chosen EXCEPT !.selectedAuthor = selected,
                                                !.mode = "specificAuthor"])

\* highlightSpecificCommit from its showQuickPick.
highlightSpecificCommit(self, selected) ==
    LET closed == [self EXCEPT !.command = NoCommand]
        chosen == Issued(closed)
    IN  IF selected = Undefined THEN Ended(closed, "dismissed")
        ELSE sessionRefreshActiveEditor([chosen EXCEPT !.selectedCommit = selected,
                                                !.mode = "specificCommit"])

\* highlightBranchDiff from its showQuickPick.
highlightBranchDiff(self, selected) ==
    LET closed == [self EXCEPT !.command = NoCommand]
        chosen == Issued(closed)
    IN  IF ~IsTruthy(selected)
        THEN Ended(closed, IF selected = Undefined THEN "dismissed" ELSE "other")
        ELSE sessionRefreshActiveEditor([chosen EXCEPT !.selectedBranch = selected,
                                                !.mode = "branchDiff"])

\* The validateInput option of highlightByAge, run on the text of the box
\* at the time nowOf: true when it returns null.
validateInput(value, nowOf) == parseDuration(value, nowOf, InvalidDate).success

\* Mutant: the box takes any text.
showInputBoxAccepts_Anything(box) == TRUE

\* showInputBox takes the text only when validateInput found no error in it.
showInputBoxAccepts(box) == box.valid

\* highlightByAge from its showInputBox, at the time nowOf.
highlightByAge(self, input, nowOf) ==
    LET closed == [self EXCEPT !.command = NoCommand]
        chosen == Issued(closed)
        parsed == parseDuration(input, nowOf, InvalidDate)
    IN  IF input = Undefined THEN Ended(closed, "dismissed")
        ELSE IF input = <<>> THEN Ended(closed, "other")
        ELSE IF ~parsed.success
        THEN Ended([closed EXCEPT !.parsedDuration = parsed], "other")
        ELSE sessionRefreshActiveEditor([chosen EXCEPT !.parsedDuration = parsed,
                                                       !.mode = "age"])

\* The listener of onDidChangeActiveTextEditor.
onDidChangeActiveTextEditor(self) ==
    Ended(IF self.mode # "none" THEN [self EXCEPT !.timer = TRUE] ELSE self, "other")

\* onSettingsChanged, for a change of enableGutterAnnotations.
onSettingsChanged(self, enable) ==
    LET updated == gutterClearAll(lineUpdateSettings(
                       [self EXCEPT !.enableGutterAnnotations = enable]))
    IN  IF updated.mode # "none" THEN sessionRefreshActiveEditor(updated)
        ELSE Ended(updated, "other")

\* The extension's goToNextHighlight and goToPreviousHighlight.
goToHighlight(self, target) ==
    IF self.mode = "none" \/ Len(self.highlightedLines) = 0 \/ ~target.defined
    THEN Ended(self, "other")
    ELSE Ended([self EXCEPT !.activeLine = revealLine(target.line)], "navigated")

----------------------------------------------------------------------------
(* The session as a state machine *)

\* The lines a highlight operation may find to highlight in the file.
HighlightOutcomes == { {}, { 2 } }

\* How the git commands of a refresh end.
GitOutcomes == { "fails", "succeeds" }

\* What the pickers offer: the authors and commits of the blame result,
\* the remote branches.
AuthorChoices == { "", "Ann" }
CommitChoices == { "aaaaaaaa" }
BranchChoices == { "origin/main" }

\* The texts typed into the input box of highlightByAge: no days, which
\* parseDuration rejects at any time, and the Unix timestamp of five
\* seconds after the epoch, which it rejects before that time.
InputTexts == { <<"0", "d">>, Zeros(9) \o <<"5", "0", "0", "0">> }

\* The times of the session, in order.
SessionTimes == << Millis(4, 999), Millis(5, 0) >>

Pickers == { "inputBox", "authorPicker", "commitPicker", "branchPicker" }

SessionBecomes(self) ==
    /\ mode' = self.mode
    /\ activeEditor' = self.activeEditor
    /\ timer' = self.timer
    /\ selectedAuthor' = self.selectedAuthor
    /\ selectedCommit' = self.selectedCommit
    /\ selectedBranch' = self.selectedBranch
    /\ parsedDuration' = self.parsedDuration
    /\ enableGutterAnnotations' = self.enableGutterAnnotations
    /\ editorDecorations' = self.editorDecorations
    /\ highlightedLines' = self.highlightedLines
    /\ activeLine' = self.activeLine
    /\ refreshing' = self.refreshing
    /\ command' = self.command
    /\ lastEvent' = self.lastEvent
    /\ sinceClear' = self.sinceClear
    /\ UNCHANGED <<lastKnownHead, tasks, headTask, head, disk, highlighted, refreshes>>
    /\ UNCHANGED <<editorBlame, currentSettings, documentLineCount, staticDecorations,
                   dynamicDecorations>>
    /\ UNCHANGED <<durationText, nowMs, dateTime>>
    /\ UNCHANGED <<cacheVars, cacheHistory, parseVars, decoratorHistory, heatmapVars,
                   debounceVars, asyncVars>>

InitSession ==
    /\ cache = <<>>
    /\ hits = 0
    /\ misses = 0
    /\ maxEntries = DefaultMaxEntries
    /\ now = 0
    /\ last = NoCall
    /\ setOrder = <<>>
    /\ firstSets = [onlySets |-> TRUE, files |-> <<>>]
    /\ deleted = {}
    /\ getLog = [gets |-> 0, found |-> 0]
    /\ ExtIdle
    /\ head = "r1"
    /\ ParseIdle
    /\ DecoratorIdle
    /\ HeatmapIdle
    /\ DebounceIdle
    /\ durationText = <<>>
    /\ nowMs = SessionTimes[1]
    /\ dateTime = InvalidDate
    /\ parsedDuration = NotParsed
    /\ AsyncIdle
    /\ SessionIdle

HighlightBy(newMode) == SessionBecomes(highlightBy(SessionSelf, newMode))

HighlightHeatmap == SessionBecomes(highlightHeatmap(SessionSelf))

ClearCommand == SessionBecomes(sessionClear(SessionSelf))

\* One quick input shows at a time.
ShowPicker(picker) ==
    /\ command.pc = "idle"
    /\ SessionBecomes(showPicker(SessionSelf, picker))

\* The user types a text into the input box, and validateInput runs on it.
TypeInput(text) ==
    /\ command.pc = "inputBox"
    /\ SessionBecomes(Ended([SessionSelf EXCEPT !.command.value = text,
                                                !.command.valid = validateInput(text, nowMs)],
                            "other"))

AcceptInput ==
    /\ command.pc = "inputBox"
    /\ showInputBoxAccepts(command)
    /\ SessionBecomes(highlightByAge(SessionSelf, command.value, nowMs))

PickAuthor(selected) ==
    /\ command.pc = "authorPicker"
    /\ SessionBecomes(highlightSpecificAuthor(SessionSelf, selected))

PickCommit(selected) ==
    /\ command.pc = "commitPicker"
    /\ SessionBecomes(highlightSpecificCommit(SessionSelf, selected))

PickBranch(selected) ==
    /\ command.pc = "branchPicker"
    /\ SessionBecomes(highlightBranchDiff(SessionSelf, selected))

\* The user dismisses the picker or the input box: it returns undefined.
Dismiss ==
    \/ /\ command.pc = "inputBox"
       /\ SessionBecomes(highlightByAge(SessionSelf, Undefined, nowMs))
    \/ PickAuthor(Undefined)
    \/ PickCommit(Undefined)
    \/ PickBranch(Undefined)

ChangeActiveEditor(editor) ==
    /\ editor # activeEditor
    /\ SessionBecomes(onDidChangeActiveTextEditor([SessionSelf EXCEPT !.activeEditor = editor,
                                                                      !.activeLine = 0]))

\* The timer of the debounced refresh expires.
DebouncedRefresh ==
    /\ timer
    /\ SessionBecomes(sessionRefreshActiveEditor([SessionSelf EXCEPT !.timer = FALSE]))

ToggleGutter == SessionBecomes(onSettingsChanged(SessionSelf, ~enableGutterAnnotations))

GitReturns(call, outcome, shown) ==
    /\ call \in refreshing
    /\ call.pc = "git"
    /\ SessionBecomes(refreshAfterGit(SessionSelf, call, outcome, shown))

DiffReturns(call, outcome, shown) ==
    /\ call \in refreshing
    /\ call.pc = "diff"
    /\ SessionBecomes(refreshAfterDiff(SessionSelf, call, outcome, shown))

GoToNextHighlight ==
    SessionBecomes(goToHighlight(SessionSelf, goToNextHighlight(highlightedLines, activeLine)))

GoToPreviousHighlight ==
    SessionBecomes(goToHighlight(SessionSelf,
                                 goToPreviousHighlight(highlightedLines, activeLine)))

SessionTimePasses ==
    /\ \E k \in 1..(Len(SessionTimes) - 1) :
          /\ nowMs = SessionTimes[k]
          /\ nowMs' = SessionTimes[k + 1]
    /\ UNCHANGED <<durationText, dateTime, parsedDuration>>
    /\ UNCHANGED <<cacheVars, cacheHistory, extVars, parseVars, decoratorVars, decoratorHistory,
                   heatmapVars, debounceVars, asyncVars, sessionVars, sessionHistory>>

NextSession ==
    \/ \E newMode \in { "author", "commit" } : HighlightBy(newMode)
    \/ HighlightHeatmap
    \/ ClearCommand
    \/ \E picker \in Pickers : ShowPicker(picker)
    \/ \E text \in InputTexts : TypeInput(text)
    \/ AcceptInput
    \/ \E selected \in AuthorChoices : PickAuthor(selected)
    \/ \E selected \in CommitChoices : PickCommit(selected)
    \/ \E selected \in BranchChoices : PickBranch(selected)
    \/ Dismiss
    \/ \E editor \in Editors : ChangeActiveEditor(editor)
    \/ DebouncedRefresh
    \/ ToggleGutter
    \/ \E call \in refreshing, outcome \in GitOutcomes, shown \in HighlightOutcomes :
          GitReturns(call, outcome, shown)
    \/ \E call \in refreshing, outcome \in GitOutcomes, shown \in HighlightOutcomes :
          DiffReturns(call, outcome, shown)
    \/ GoToNextHighlight
    \/ GoToPreviousHighlight
    \/ SessionTimePasses

SpecSession == InitSession /\ [][NextSession]_vars

----------------------------------------------------------------------------
(* Claims about the session *)

\* C24: after the clear command no line highlight and no gutter annotation
\* is applied to any editor until the next highlight command is issued,
\* even when a refresh that started before the clear is awaiting git
\* output when clear runs.
C24_NothingAppliedAfterClear == sinceClear.cleared => ~sinceClear.applied

\* C27: the navigation sequence describes the highlights the active editor
\* shows: when a refresh has ended by clearing the editor's decorations the
\* navigation sequence is empty, and a navigation command moves the cursor
\* only to a line that is highlighted in the active editor.
C27_NavigationDescribesEditor ==
    /\ lastEvent = "refresh cleared" => highlightedLines = <<>>
    /\ lastEvent = "navigated" => (activeLine + 1) \in editorDecorations[activeEditor].lines

\* A mode that takes a parameter has it.
ModeHasItsParameter ==
    /\ mode \in HighlightModes
    /\ mode = "specificAuthor" => IsTruthy(selectedAuthor)
    /\ mode = "specificCommit" => IsTruthy(selectedCommit)
    /\ mode = "branchDiff" => IsTruthy(selectedBranch)
    /\ mode = "age" => parsedDuration.returned /\ parsedDuration.success

\* C28: one mode is active at a time and a mode that takes a parameter has
\* it: specificAuthor a non-empty selectedAuthor, specificCommit a
\* non-empty selectedCommit, branchDiff a non-empty selectedBranch, age a
\* duration that was parsed with success; dismissing a picker or the input
\* box leaves the mode and every parameter as they were.
C28_ModeHasItsParameter ==
    /\ []ModeHasItsParameter
    /\ [][lastEvent' = "dismissed" =>
             UNCHANGED <<mode, selectedAuthor, selectedCommit, selectedBranch,
                         parsedDuration>>]_vars

\* The mode is age, by a timestamp that validateInput rejected a
\* millisecond earlier; an author and a branch were chosen before, and the
\* last picker was dismissed.
C28_Witness ==
    /\ mode = "age"
    /\ parsedDuration.success
    /\ IsTruthy(selectedAuthor)
    /\ IsTruthy(selectedBranch)
    /\ lastEvent = "dismissed"


====
